---- MODULE Spec2Model ----
(***************************************************************************)
(* Verification model of rrasch/aco-scripts:                               *)
(*   - the integrity manifest (create_directory_checksum /                 *)
(*     verify_directory_checksum) of process_yaiglobal_batch.py,           *)
(*   - the batch cache (fetch_batch_files) of process_yaiglobal_batch.py,  *)
(*   - the positional renamer (rename_files) of rename_yaiglobal_ocr.py,   *)
(*   - the PDF assembly (generate_pdf, generate_pdf_parallel, merge_pdfs)  *)
(*     of util.py,                                                         *)
(*   - the file count validation (validate_file_counts) and two            *)
(*     fetch_batch_files invocations at once.                              *)
(*                                                                         *)
(* File names are sequences of one-character strings, file contents are    *)
(* sequences of bytes, a text file is a sequence of lines and a line is a  *)
(* sequence of symbols (characters and whitespace-free tokens such as a    *)
(* hex digest or "size=3").                                                *)
(***************************************************************************)
EXTENDS Integers, Sequences, FiniteSets, TLC

VARIABLES
    D,          \* manifest spec: the directory under check
    snap,       \* manifest spec: D.files when the manifest was built
    edits,      \* manifest spec: number of changes made to D since Init
    vres,       \* manifest spec: outcome of the last verify, or NoResult
    remote,     \* fetch spec: the files under the batch's remote prefix
    cache,      \* fetch spec: cache_dir (cache_root/batchNNNN)
    tmp,        \* fetch spec: tmp_dir (cache_root/batchNNNN.tmp)
    outbox,     \* fetch spec: the caller's outbox directory
    pc,         \* fetch spec: where the running fetch_batch_files stands
    pending,    \* fetch spec: the names the running loop has still to visit
    outcome,    \* fetch spec: how the last invocation ended, and where
    runs,       \* fetch spec: number of invocations started
    hist,       \* fetch spec: history of the invocations (observations only)
    seDir,      \* rename spec: the names in se_dir (the master images)
    yaiDir,     \* rename spec: yai_dir, file name -> the name it was delivered as
    perms,      \* rename spec: yai_dir is writable and executable
    rcalls,     \* rename spec: number of rename_files calls made
    rres,       \* rename spec: the last rename_files call and how it ended
    pcall,      \* pdf spec: function and arguments of the running or last call
    ppc,        \* pdf spec: where the running call stands
    pageSt,     \* pdf spec: state of each page's future in the worker pool
    collected,  \* pdf spec: page indices in the order as_completed gave them
    scratch,    \* pdf spec: the call's temporary directory
    dest,       \* pdf spec: the file at output_file
    cmds,       \* pdf spec: the external commands the call has run, in order
    pres,       \* pdf spec: how the last call ended
    pobs,       \* pdf spec: observations of the call (history only)
    pcalls,     \* pdf spec: number of calls started
    srcFiles,   \* pdf spec: the input files of merge_pdfs that are on disk
    procDir,    \* counts spec: the entries of the processing directory
    cpc,        \* counts spec: where validate_file_counts stands
    cnext,      \* counts spec: position of the loop in the sorted listing
    mismatches, \* counts spec: the messages collected so far
    cres,       \* counts spec: how validate_file_counts ended
    xremote,    \* race spec: the files under the batch's remote prefix
    xcache,     \* race spec: cache_dir, shared by the invocations
    xtmp,       \* race spec: tmp_dir, shared by the invocations
    xoutbox,    \* race spec: the outbox of each invocation
    xpc,        \* race spec: where each invocation stands
    xpending,   \* race spec: the names each invocation's loop has to visit
    xout,       \* race spec: how each invocation ended
    xobs        \* race spec: observations (history only)

mvars == <<D, snap, edits, vres>>
fvars == <<remote, cache, tmp, outbox, pc, pending, outcome, runs, hist>>
rvars == <<seDir, yaiDir, perms, rcalls, rres>>
pvars == <<pcall, ppc, pageSt, collected, scratch, dest, cmds, pres, pobs,
           pcalls, srcFiles>>
cvars == <<procDir, cpc, cnext, mismatches, cres>>
xvars == <<xremote, xcache, xtmp, xoutbox, xpc, xpending, xout, xobs>>
vars == <<D, snap, edits, vres,
          remote, cache, tmp, outbox, pc, pending, outcome, runs, hist,
          seDir, yaiDir, perms, rcalls, rres,
          pcall, ppc, pageSt, collected, scratch, dest, cmds, pres, pobs,
          pcalls, srcFiles,
          procDir, cpc, cnext, mismatches, cres,
          xremote, xcache, xtmp, xoutbox, xpc, xpending, xout, xobs>>

----------------------------------------------------------------------------
(* Bounds *)

MaxFiles == 2       \* most files in the directory of the manifest spec
MaxFileSize == 1    \* longest file content, in bytes
MaxEdits == 2       \* most changes made to the directory after Init
MaxRemote == 2      \* most files under the batch's remote prefix
MaxRuns == 2        \* most invocations of fetch_batch_files in a row
MaxFaults == 1      \* most files one copy loop loses or corrupts
MaxPages == 2       \* highest page number of a master image
MaxPdfPages == 2    \* most pages of a document
MaxWorkers == 2     \* most workers of a page pool
MaxPdfCalls == 1    \* most calls of the pdf spec in a row
MaxCalls == 2       \* most rename_files calls in a row
MaxDirs == 2        \* most entries of the processing directory

----------------------------------------------------------------------------
(* Characters, names, contents *)

\* the characters file names are made of, in code point order
CharOrder == <<" ", ".", "_", "a", "b", "i", "l", "n", "o", "p", "t", "x", "z">>

CharRank(ch) == CHOOSE i \in 1..Len(CharOrder) : CharOrder[i] = ch

\* str.isspace() on one symbol of a line
IsSpace(ch) == ch = " "

Bytes == {0, 1}

SeqsUpTo(S, n) == UNION {[1..k -> S] : k \in 0..n}

FileContents == SeqsUpTo(Bytes, MaxFileSize)

\* names of the manifest spec: "a", "b" and "a " (an "a" and a blank)
ManifestNames == {<<"a">>, <<"b">>, <<"a", " ">>}

\* a text file that does not exist, and one holding the given lines
NoFile == [exists |-> FALSE, lines |-> <<>>]

TextFile(lines) == [exists |-> TRUE, lines |-> lines]

\* no verify has been run on the directory as it is
NoResult == [called |-> FALSE, raised |-> FALSE, examined |-> 0,
             mismatches |-> <<>>]

\* Python's ordering of two str values (code point by code point)
RECURSIVE StrLess(_, _)
StrLess(a, b) ==
    IF b = <<>> THEN FALSE
    ELSE IF a = <<>> THEN TRUE
    ELSE IF Head(a) # Head(b) THEN CharRank(Head(a)) < CharRank(Head(b))
    ELSE StrLess(Tail(a), Tail(b))

\* sorted(): the names of S in ascending order
RECURSIVE Sorted(_)
Sorted(S) ==
    IF S = {} THEN <<>>
    ELSE LET m == CHOOSE x \in S : \A y \in S \ {x} : StrLess(x, y)
         IN  <<m>> \o Sorted(S \ {m})

\* hashlib hexdigest: a whitespace-free token, one per content (collision
\* free, as sha256 is taken to be)
HexDigest(content) == ToString(content)

\* the "size=<n>" token of a CACHEINFO.txt line
SizeToken(n) == "size=" \o ToString(n)

MtimeToken == "mtime=0.0"

\* str.strip(): drop leading and trailing whitespace
RECURSIVE LStrip(_)
LStrip(s) == IF s # <<>> /\ IsSpace(Head(s)) THEN LStrip(Tail(s)) ELSE s

RECURSIVE RStrip(_)
RStrip(s) ==
    IF s # <<>> /\ IsSpace(s[Len(s)])
    THEN RStrip(SubSeq(s, 1, Len(s) - 1)) ELSE s

Strip(s) == RStrip(LStrip(s))

\* length of the longest whitespace-free prefix of s
RECURSIVE WordLen(_)
WordLen(s) ==
    IF s = <<>> \/ IsSpace(Head(s)) THEN 0 ELSE 1 + WordLen(Tail(s))

\* str.split(maxsplit=1): at most two parts, split at the first run of
\* whitespace; leading whitespace of both parts is dropped
SplitMax1(s) ==
    LET t == LStrip(s)
        n == WordLen(t)
        rest == LStrip(SubSeq(t, n + 1, Len(t)))
    IN  IF t = <<>> THEN <<>>
        ELSE IF rest = <<>> THEN <<SubSeq(t, 1, n)>>
        ELSE <<SubSeq(t, 1, n), rest>>

----------------------------------------------------------------------------
(* Directories: the regular files directly under the directory, and its    *)
(* two manifest files CHECKSUMS.txt and CACHEINFO.txt                      *)

EmptyFiles == [n \in {} |-> <<>>]

MkDir(files, cksum, info) == [files |-> files, cksum |-> cksum, info |-> info]

\* the partial functions from at most k names of Names to contents
FileMaps(Names, k) ==
    UNION {[S -> FileContents] : S \in {T \in SUBSET Names : Cardinality(T) <= k}}

\* one line of CHECKSUMS.txt: f"{digest}  {file.name}\n"
ChecksumLine(name, content) == <<HexDigest(content), " ", " ">> \o name

\* one line of CACHEINFO.txt: f"{file.name}  size={size}  mtime={mtime}\n"
InfoLine(name, content) ==
    name \o <<" ", " ", SizeToken(Len(content)), " ", " ", MtimeToken>>

\* the lines written for the files named by names, in that order
ChecksumLines(names, files) ==
    [i \in 1..Len(names) |-> ChecksumLine(names[i], files[names[i]])]

InfoLines(names, files) ==
    [i \in 1..Len(names) |-> InfoLine(names[i], files[names[i]])]

\* create_directory_checksum: both manifest files are rewritten from the
\* sorted regular files of the directory, the manifest files excluded
CreateDirectoryChecksum(dir) ==
    LET names == Sorted(DOMAIN dir.files)
    IN  MkDir(dir.files,
              TextFile(ChecksumLines(names, dir.files)),
              TextFile(InfoLines(names, dir.files)))

\* re.match(r"^(\S+)\s+size=(\d+)", line.strip()): <<fname, fsize>> or <<>>
IsSizeToken(sym) == \E n \in 0..(MaxFileSize + 2) : sym = SizeToken(n)

ParseSize(sym) == CHOOSE n \in 0..(MaxFileSize + 2) : sym = SizeToken(n)

MatchInfoLine(line) ==
    LET t == Strip(line)
        n == WordLen(t)
        rest == LStrip(SubSeq(t, n + 1, Len(t)))
    IN  IF n > 0 /\ n < Len(t) /\ rest # <<>> /\ IsSizeToken(Head(rest))
        THEN <<SubSeq(t, 1, n), ParseSize(Head(rest))>>
        ELSE <<>>

\* sizes_expected: later lines overwrite earlier ones of the same name
RECURSIVE SizesExpected(_, _)
SizesExpected(info, acc) ==
    IF info = <<>> THEN acc
    ELSE LET m == MatchInfoLine(Head(info))
         IN  SizesExpected(Tail(info),
                IF m = <<>> THEN acc
                ELSE [n \in DOMAIN acc \cup {m[1]} |->
                        IF n = m[1] THEN m[2] ELSE acc[n]])

Diag(kind, file) == [kind |-> kind, file |-> file]

\* the diagnostics one CHECKSUMS.txt line adds to mismatches
CheckLine(dir, sizes, line) ==
    LET parts == SplitMax1(Strip(line))
        expected == parts[1]
        filename == parts[2]
    IN  IF Len(parts) # 2 THEN <<>>
        ELSE IF filename \notin DOMAIN dir.files
        THEN <<Diag("Missing file", filename)>>
        ELSE (IF <<HexDigest(dir.files[filename])>> # expected
              THEN <<Diag("Checksum mismatch", filename)>> ELSE <<>>)
             \o
             (IF filename \in DOMAIN sizes
                 /\ Len(dir.files[filename]) # sizes[filename]
              THEN <<Diag("Size mismatch", filename)>> ELSE <<>>)

\* the same loop leaving at the first failing line
RECURSIVE ScanChecksumsFailFast(_, _, _, _)
ScanChecksumsFailFast(dir, sizes, i, acc) ==
    IF i > Len(dir.cksum.lines) \/ acc # <<>>
    THEN [mismatches |-> acc, examined |-> i - 1]
    ELSE ScanChecksumsFailFast(dir, sizes, i + 1,
                               acc \o CheckLine(dir, sizes, dir.cksum.lines[i]))

\* the loop over CHECKSUMS.txt from line i on: the mismatches collected and
\* the number of lines read when the loop ends
RECURSIVE ScanChecksums(_, _, _, _)
ScanChecksums(dir, sizes, i, acc) ==
    IF i > Len(dir.cksum.lines) THEN [mismatches |-> acc, examined |-> i - 1]
    ELSE ScanChecksums(dir, sizes, i + 1,
                       acc \o CheckLine(dir, sizes, dir.cksum.lines[i]))

\* verify_directory_checksum: raised tells whether ValidationError is raised
VerifyDirectoryChecksum(dir) ==
    IF ~dir.cksum.exists
    THEN [called |-> TRUE, raised |-> TRUE, examined |-> 0,
          mismatches |-> <<Diag("Checksum file missing", <<>>)>>]
    ELSE LET sizes == IF ~dir.info.exists THEN EmptyFiles
                      ELSE SizesExpected(dir.info.lines, EmptyFiles)
             scan == ScanChecksums(dir, sizes, 1, <<>>)
         IN  [called |-> TRUE, raised |-> scan.mismatches # <<>>,
              examined |-> scan.examined,
              mismatches |-> scan.mismatches]

----------------------------------------------------------------------------
(* The batch cache: fetch_batch_files                                      *)

\* the names a remote batch is made of: a.zip, a_lo.zip, n.txt
RemoteNames ==
    { <<"a", ".", "z", "i", "p">>,
      <<"a", "_", "l", "o", ".", "z", "i", "p">>,
      <<"n", ".", "t", "x", "t">> }

\* what the remote store holds under each name: a.zip and a_lo.zip differ,
\* n.txt is empty
RemoteContent(n) ==
    IF n = <<"a", "_", "l", "o", ".", "z", "i", "p">> THEN <<1>>
    ELSE IF n = <<"n", ".", "t", "x", "t">> THEN <<>>
    ELSE <<0>>

\* the remote batches: at most MaxRemote of the names
RemoteBatches ==
    {[n \in S |-> RemoteContent(n)] :
        S \in {T \in SUBSET RemoteNames : Cardinality(T) <= MaxRemote}}

ZipSuffix == <<".", "z", "i", "p">>

LoPattern == <<"_", "l", "o">>

\* the manifest files as entries of a directory listing
CksumName == <<"CHECKSUMS.txt">>

InfoName == <<"CACHEINFO.txt">>

\* glob("*.zip"): the name ends with .zip
EndsWith(name, suffix) ==
    /\ Len(name) >= Len(suffix)
    /\ SubSeq(name, Len(name) - Len(suffix) + 1, Len(name)) = suffix

\* str.replace(pattern, ""): one pass from the left over the name
RECURSIVE RemoveAll(_, _)
RemoveAll(name, pattern) ==
    IF Len(name) < Len(pattern) THEN name
    ELSE IF SubSeq(name, 1, Len(pattern)) = pattern
    THEN RemoveAll(SubSeq(name, Len(pattern) + 1, Len(name)), pattern)
    ELSE <<Head(name)>> \o RemoveAll(Tail(name), pattern)

\* the bytes a damaged copy of content c may hold: c cut short, or c with
\* its first byte changed
Damaged(c) ==
    IF c = <<>> THEN {<<0>>}
    ELSE {SubSeq(c, 1, Len(c) - 1), <<1 - c[1]>> \o Tail(c)}

\* a directory that may not exist
NoDir == [exists |-> FALSE, dir |-> MkDir(EmptyFiles, NoFile, NoFile)]

EmptyDir == [exists |-> TRUE, dir |-> MkDir(EmptyFiles, NoFile, NoFile)]

\* list(cache_dir.glob("*.zip"))
ZipFiles(d) ==
    IF d.exists THEN {n \in DOMAIN d.dir.files : EndsWith(n, ZipSuffix)} ELSE {}

\* cache_dir.glob("*"): the regular files and the manifest files
Listing(dir) ==
    DOMAIN dir.files
      \cup (IF dir.cksum.exists THEN {CksumName} ELSE {})
      \cup (IF dir.info.exists THEN {InfoName} ELSE {})

\* the files f without the file named n / with the file n holding c
Without(f, n) == [m \in DOMAIN f \ {n} |-> f[m]]

With(f, n, c) == [m \in DOMAIN f \cup {n} |-> IF m = n THEN c ELSE f[m]]

\* path.rename(new_path) inside one directory: new_path is replaced
RenameIn(f, old, new) == With(Without(f, old), new, f[old])

Ended(kind, at) == [kind |-> kind, at |-> at]

Running == Ended("running", "none")

NoHist ==
    [cacheAtStart |-> NoDir, outboxAtStart |-> MkDir(EmptyFiles, NoFile, NoFile),
     readyAtStart |-> FALSE, syncRuns |-> {}, syncCalls |-> 0,
     normalized |-> EmptyFiles, copied |-> 0, faults |-> 0,
     tampered |-> FALSE, rmFailed |-> FALSE, listed |-> {}]

\* nothing of the fetch specification moves
FetchAtRest ==
    /\ remote = EmptyFiles
    /\ cache = NoDir
    /\ tmp = NoDir
    /\ outbox = MkDir(EmptyFiles, NoFile, NoFile)
    /\ pc = "idle"
    /\ pending = {}
    /\ outcome = Ended("none", "none")
    /\ runs = 0
    /\ hist = NoHist


----------------------------------------------------------------------------
(* The positional renamer: rename_files of rename_yaiglobal_ocr.py         *)
(*                                                                         *)
(* A name of yai_dir is a record: form "yai" stands for                    *)
(* <book>_<num, 6 digits>.<ext> and form "nyu" for                         *)
(* <book>_<kind><num>_ocr.<ext>; bom tells that the name starts with a     *)
(* byte order mark. A name of se_dir is <book>_<kind><num><suffix>.        *)

DMAKER_SUFFIX == "_d.tif"

\* get_bookid(se_dir): the name of the directory above se_dir
BookId == "bk"

YaiName(bom, num, ext) ==
    [bom |-> bom, book |-> BookId, form |-> "yai", kind |-> "", num |-> num,
     ext |-> ext]

NyuName(kind, num, ext) ==
    [bom |-> FALSE, book |-> BookId, form |-> "nyu", kind |-> kind, num |-> num,
     ext |-> ext]

SeName(kind, num, suffix) ==
    [book |-> BookId, kind |-> kind, num |-> num, suffix |-> suffix]

\* the order of the first characters after "<book>_": digits, then afr, n, zbk
KindRank(kind) ==
    IF kind = "" THEN 0 ELSE IF kind = "afr" THEN 1 ELSE IF kind = "n" THEN 2 ELSE 3

\* sorted(os.scandir(dirpath), key=clean_text(name)) on names of one book,
\* form and extension: the byte order mark is not part of the key, the
\* zero-padded number orders as the number
NameLess(a, b) ==
    \/ KindRank(a.kind) < KindRank(b.kind)
    \/ KindRank(a.kind) = KindRank(b.kind) /\ a.num < b.num

RECURSIVE SortedNames(_)
SortedNames(S) ==
    IF S = {} THEN <<>>
    ELSE LET m == CHOOSE x \in S : \A y \in S \ {x} : NameLess(x, y)
         IN  <<m>> \o SortedNames(S \ {m})

\* is_dmaker
IsDmaker(name) == name.suffix = DMAKER_SUFFIX

\* is_nyu_format(bookid, ext): ^{bookid}_((afr|zbk)\d{2}|n\d{6})_ocr\.{ext}
\* on the name without its byte order mark
IsNyuFormat(bookid, ext, name) ==
    name.form = "nyu" /\ name.book = bookid /\ name.ext = ext

\* is_yai_format(bookid, ext): ^{bookid}_\d{6}\.{ext}$
IsYaiFormat(bookid, ext, name) ==
    name.form = "yai" /\ name.book = bookid /\ name.ext = ext

\* path_grep(se_dir, is_dmaker)
DmakerImgs(se) == SortedNames({n \in se : IsDmaker(n)})

\* path_grep(yai_dir, is_nyu_format(bookid, ext))
GrepNyu(yai, ext) == SortedNames({n \in DOMAIN yai : IsNyuFormat(BookId, ext, n)})

\* path_grep(yai_dir, is_yai_format(bookid, ext)) with the raw name as sort
\* key: a name that starts with a byte order mark sorts after every other
GrepYaiRaw(yai, ext) ==
    SortedNames({n \in DOMAIN yai : IsYaiFormat(BookId, ext, n) /\ ~n.bom})
      \o SortedNames({n \in DOMAIN yai : IsYaiFormat(BookId, ext, n) /\ n.bom})

\* path_grep(yai_dir, is_yai_format(bookid, ext))
GrepYai(yai, ext) == SortedNames({n \in DOMAIN yai : IsYaiFormat(BookId, ext, n)})

\* lines 290-297 with destination names of the delivered form,
\* <book>_<position in six digits>.<txt|html>
DstNamesDelivered(imgs, ext) ==
    [i \in 1..Len(imgs) |->
        YaiName(FALSE, i, IF ext = "hocr" THEN "html" ELSE ext)]

\* lines 290-297: basename(img[:-len_suffix]) + "_ocr" + ext for every image
DstNames(imgs, ext) ==
    [i \in 1..Len(imgs) |-> NyuName(imgs[i].kind, imgs[i].num, ext)]

\* os.rename(src, dst) for the first k pairs of zip(srcs, dsts): an existing
\* dst is replaced
RECURSIVE DoRenames(_, _, _, _)
DoRenames(yai, srcs, dsts, k) ==
    IF k = 0 THEN yai
    ELSE LET before == DoRenames(yai, srcs, dsts, k - 1)
         IN  IF k > Len(srcs) \/ k > Len(dsts) THEN before
             ELSE [n \in (DOMAIN before \ {srcs[k]}) \cup {dsts[k]} |->
                      IF n = dsts[k] THEN before[srcs[k]] ELSE before[n]]

Raised(yai, why) ==
    [called |-> TRUE, error |-> "FileRenameError", why |-> why, dir |-> yai,
     renames |-> 0]

Returned(yai, renames) ==
    [called |-> TRUE, error |-> "none", why |-> "none", dir |-> yai,
     renames |-> renames]

\* rename_files, with the .txt files renamed before the .html count is
\* compared
RenameFilesEager(se, yai, writable, dry_run, check_perms) ==
    LET renamed_files == GrepNyu(yai, "html") \o GrepNyu(yai, "txt")
        src_txt == GrepYai(yai, "txt")
        src_html == GrepYai(yai, "html")
        dmaker_imgs == DmakerImgs(se)
        dst_txt == DstNames(dmaker_imgs, "txt")
        dst_html == DstNames(dmaker_imgs, "hocr")
        after_txt == IF dry_run THEN yai
                     ELSE DoRenames(yai, src_txt, dst_txt, Len(src_txt))
    IN  IF renamed_files # <<>> THEN Raised(yai, "already renamed")
        ELSE IF dmaker_imgs = <<>> THEN Raised(yai, "no dmaker images")
        ELSE IF src_txt = <<>> THEN Raised(yai, "no txt files")
        ELSE IF src_html = <<>> THEN Raised(yai, "no html files")
        ELSE IF Len(src_txt) # Len(dst_txt) THEN Raised(yai, "txt count")
        ELSE IF Len(src_html) # Len(dst_html)
        THEN [Raised(after_txt, "html count") EXCEPT
                 !.renames = IF dry_run THEN 0 ELSE Len(src_txt)]
        ELSE IF check_perms /\ ~writable THEN Raised(yai, "permissions")
        ELSE LET src_list == src_txt \o src_html
                 dst_list == dst_txt \o dst_html
             IN  IF dry_run THEN Returned(yai, 0)
                 ELSE Returned(DoRenames(yai, src_list, dst_list, Len(src_list)),
                               Len(src_list))

\* rename_files(se_dir, yai_dir, dry_run, colorize, check_perms): the error
\* raised if any, yai_dir afterwards and the number of os.rename calls made
RenameFiles(se, yai, writable, dry_run, check_perms) ==
    LET renamed_files == GrepNyu(yai, "html") \o GrepNyu(yai, "txt")
        src_txt == GrepYai(yai, "txt")
        src_html == GrepYai(yai, "html")
        dmaker_imgs == DmakerImgs(se)
        dst_txt == DstNames(dmaker_imgs, "txt")
        dst_html == DstNames(dmaker_imgs, "hocr")
    IN  IF renamed_files # <<>> THEN Raised(yai, "already renamed")
        ELSE IF dmaker_imgs = <<>> THEN Raised(yai, "no dmaker images")
        ELSE IF src_txt = <<>> THEN Raised(yai, "no txt files")
        ELSE IF src_html = <<>> THEN Raised(yai, "no html files")
        ELSE IF Len(src_txt) # Len(dst_txt) THEN Raised(yai, "txt count")
        ELSE IF Len(src_html) # Len(dst_html) THEN Raised(yai, "html count")
        ELSE IF check_perms /\ ~writable THEN Raised(yai, "permissions")
        ELSE LET src_list == src_txt \o src_html
                 dst_list == dst_txt \o dst_html
             IN  IF dry_run THEN Returned(yai, 0)
                 ELSE Returned(DoRenames(yai, src_list, dst_list, Len(src_list)),
                               Len(src_list))

\* the i-th master image of a book: afr01, then n000001, n000002, ...
MasterPage(i) ==
    IF i = 1 THEN SeName("afr", 1, DMAKER_SUFFIX)
    ELSE SeName("n", i - 1, DMAKER_SUFFIX)

\* se_dir of a book with m master images, next to another derivative
MasterSet(m) == {MasterPage(i) : i \in 1..m} \cup {SeName("n", 1, "_m.tif")}

\* files of yai_dir that carry the canonical name before any call
PriorNames ==
    {NyuName("n", 1, "hocr"), NyuName("n", 1, "txt"), NyuName("afr", 1, "html")}

\* the source files: .txt and .html files numbered by T and H, the lowest
\* .txt name with a byte order mark when bom is set
SourceNames(T, H, bom) ==
    {YaiName(bom /\ (\A m \in T : n <= m), n, "txt") : n \in T}
      \cup {YaiName(FALSE, n, "html") : n \in H}

NoCall ==
    [called |-> FALSE, error |-> "none", why |-> "none", renames |-> 0,
     before |-> <<>>, after |-> <<>>, dry_run |-> FALSE, check_perms |-> FALSE]

\* nothing of the rename specification moves
RenameAtRest ==
    /\ seDir = {}
    /\ yaiDir = <<>>
    /\ perms = TRUE
    /\ rcalls = 0
    /\ rres = NoCall

\* a file that is not there
NoDoc == [exists |-> FALSE, pages |-> <<>>, ops |-> <<>>, whole |-> TRUE]

\* a PDF file: the pages it shows, in order, the tools that have written it,
\* in order, and whether all of its bytes are there
Doc(pages, ops) == [exists |-> TRUE, pages |-> pages, ops |-> ops, whole |-> TRUE]

\* the names of the files a call keeps in its temporary directory
TmpNames == {"orig", "exif", "qpdf", "merged", "opt"}

\* no temporary directory
NoScratch ==
    [exists |-> FALSE, pages |-> {}, files |-> <<>>,
     docs |-> [f \in TmpNames |-> NoDoc]]

NoPdfCall ==
    [fn |-> "none", nimg |-> 0, hocrs |-> <<>>, inputs |-> <<>>,
     overwrite |-> FALSE, workers |-> 1, tmpdir |-> FALSE,
     keep_sources |-> TRUE, magick |-> FALSE,
     qpdf |-> FALSE, pdftk |-> FALSE, java |-> FALSE, jars |-> {},
     samefs |-> FALSE]

NoPdfResult == [kind |-> "none", error |-> "none", at |-> "none"]

NoPdfObs ==
    [destAtStart |-> NoDoc, handed |-> <<>>, handedOver |-> FALSE,
     tool |-> "none", made |-> FALSE, unlinkFailed |-> FALSE,
     clobbered |-> FALSE]

\* nothing of the pdf specification moves
PdfAtRest ==
    /\ pcall = NoPdfCall
    /\ ppc = "idle"
    /\ pageSt = <<>>
    /\ collected = <<>>
    /\ scratch = NoScratch
    /\ dest = NoDoc
    /\ cmds = <<>>
    /\ pres = NoPdfResult
    /\ pobs = NoPdfObs
    /\ pcalls = 0
    /\ srcFiles = {}

\* no result of validate_file_counts
NoCountsResult == [kind |-> "none", listed |-> <<>>, inspected |-> 0]

\* nothing of the counts specification moves
CountsAtRest ==
    /\ procDir = <<>>
    /\ cpc = "idle"
    /\ cnext = 0
    /\ mismatches = <<>>
    /\ cres = NoCountsResult

\* the two invocations of the race specification
Procs == {1, 2}

NoRaceObs == [removedBuilding |-> FALSE, renamedBuilding |-> FALSE]

\* nothing of the race specification moves
RaceAtRest ==
    /\ xremote = EmptyFiles
    /\ xcache = NoDir
    /\ xtmp = NoDir
    /\ xoutbox = [p \in Procs |-> MkDir(EmptyFiles, NoFile, NoFile)]
    /\ xpc = [p \in Procs |-> "idle"]
    /\ xpending = [p \in Procs |-> {}]
    /\ xout = [p \in Procs |-> Ended("none", "none")]
    /\ xobs = NoRaceObs

\* nothing of the manifest specification moves
ManifestAtRest ==
    /\ D = MkDir(EmptyFiles, NoFile, NoFile)
    /\ snap = EmptyFiles
    /\ edits = 0
    /\ vres = NoResult

----------------------------------------------------------------------------
(* Manifest specification: a directory is filled, its manifest is built,   *)
(* files are changed, deleted or added, and the directory is verified      *)

InitManifest ==
    /\ D \in {MkDir(f, NoFile, NoFile) : f \in FileMaps(ManifestNames, MaxFiles)}
    /\ snap = EmptyFiles
    /\ edits = 0
    /\ vres = NoResult
    /\ FetchAtRest
    /\ RenameAtRest
    /\ PdfAtRest
    /\ CountsAtRest
    /\ RaceAtRest

\* create_directory_checksum(D)
CreateChecksum ==
    /\ ~D.cksum.exists
    /\ D' = CreateDirectoryChecksum(D)
    /\ snap' = D.files
    /\ vres' = NoResult
    /\ UNCHANGED <<edits, fvars, rvars, pvars, cvars, xvars>>

\* verify_directory_checksum(D)
Verify ==
    /\ ~vres.called
    /\ vres' = VerifyDirectoryChecksum(D)
    /\ UNCHANGED <<D, snap, edits, fvars, rvars, pvars, cvars, xvars>>

\* the content of one file of D is replaced
EditFile ==
    /\ edits < MaxEdits
    /\ \E n \in DOMAIN D.files : \E c \in FileContents \ {D.files[n]} :
          D' = [D EXCEPT !.files[n] = c]
    /\ edits' = edits + 1
    /\ vres' = NoResult
    /\ UNCHANGED <<snap, fvars, rvars, pvars, cvars, xvars>>

\* one file of D is deleted
DeleteFile ==
    /\ edits < MaxEdits
    /\ \E n \in DOMAIN D.files :
          D' = [D EXCEPT !.files = [m \in DOMAIN D.files \ {n} |-> D.files[m]]]
    /\ edits' = edits + 1
    /\ vres' = NoResult
    /\ UNCHANGED <<snap, fvars, rvars, pvars, cvars, xvars>>

\* a file is added to D
AddFile ==
    /\ edits < MaxEdits
    /\ \E n \in ManifestNames \ DOMAIN D.files : \E c \in FileContents :
          D' = [D EXCEPT !.files = [m \in DOMAIN D.files \cup {n} |->
                                       IF m = n THEN c ELSE D.files[m]]]
    /\ edits' = edits + 1
    /\ vres' = NoResult
    /\ UNCHANGED <<snap, fvars, rvars, pvars, cvars, xvars>>

NextManifest == CreateChecksum \/ Verify \/ EditFile \/ DeleteFile \/ AddFile

SpecManifest == InitManifest /\ [][NextManifest]_vars

----------------------------------------------------------------------------
(* Fetch specification: invocations of fetch_batch_files run one after      *)
(* another; any of them may fail, be killed between two steps, and the     *)
(* cache may be damaged between two of them                                *)

\* what the caller's outbox may hold before the first invocation: nothing,
\* or b.zip, a file of an earlier delivery
PriorOutboxes ==
    {MkDir(EmptyFiles, NoFile, NoFile),
     MkDir([n \in {<<"b", ".", "z", "i", "p">>} |-> <<1>>], NoFile, NoFile)}

\* a machine with no cache and no temp directory; line 348 accepts the
\* outbox as it is
InitFetch ==
    /\ remote \in RemoteBatches
    /\ cache = NoDir
    /\ tmp = NoDir
    /\ outbox \in PriorOutboxes
    /\ pc = "idle"
    /\ pending = {}
    /\ outcome = Ended("none", "none")
    /\ runs = 0
    /\ hist = NoHist
    /\ ManifestAtRest
    /\ RenameAtRest
    /\ PdfAtRest
    /\ CountsAtRest
    /\ RaceAtRest

\* the invocation ends: an exception leaves the function, or it returns
Finish(kind, at) ==
    /\ pc' = "idle"
    /\ pending' = {}
    /\ outcome' = Ended(kind, at)

\* lines 344-349: a new invocation; outbox and cache_root are made
FetchStart ==
    /\ pc = "idle"
    /\ runs < MaxRuns
    /\ runs' = runs + 1
    /\ pc' = "rmtmp"
    /\ outcome' = Running
    /\ hist' = [hist EXCEPT !.cacheAtStart = cache, !.outboxAtStart = outbox,
                            !.readyAtStart = ZipFiles(cache) # {},
                            !.copied = 0, !.faults = 0]
    /\ UNCHANGED <<mvars, rvars, pvars, cvars, xvars, remote, cache, tmp, outbox, pending>>

\* lines 351-353: shutil.rmtree(tmp_dir, ignore_errors=True) removes a stale
\* temp directory; files it cannot remove stay, with the directory, and no
\* error is raised
FetchRemoveStaleTmp ==
    /\ pc = "rmtmp"
    /\ \/ /\ tmp' = NoDir
          /\ hist' = hist
       \/ /\ tmp.exists
          /\ ~hist.rmFailed
          /\ \E S \in SUBSET DOMAIN tmp.dir.files :
                /\ S # {}
                /\ tmp' = [tmp EXCEPT !.dir.files = [n \in S |-> tmp.dir.files[n]]]
          /\ hist' = [hist EXCEPT !.rmFailed = TRUE]
    /\ pc' = "glob"
    /\ UNCHANGED <<mvars, rvars, pvars, cvars, xvars, remote, cache, outbox, pending, outcome, runs>>

\* the branch at lines 355-358 taken as if the cache were never ready
FetchGlobNeverReady ==
    /\ pc = "glob"
    /\ pc' = "mkdir_tmp"
    /\ UNCHANGED <<mvars, rvars, pvars, cvars, xvars, remote, cache, tmp, outbox, pending, outcome, runs, hist>>

\* lines 355-358, 362: cache_ready and the branch taken
FetchGlob ==
    /\ pc = "glob"
    /\ pc' = IF Cardinality(ZipFiles(cache)) > 0 THEN "verify_cache" ELSE "mkdir_tmp"
    /\ UNCHANGED <<mvars, rvars, pvars, cvars, xvars, remote, cache, tmp, outbox, pending, outcome, runs, hist>>

\* lines 359-360 with a repair: a cache that fails verification is dropped
\* and rebuilt
FetchVerifyCacheRepair ==
    /\ pc = "verify_cache"
    /\ IF VerifyDirectoryChecksum(cache.dir).raised
       THEN /\ cache' = NoDir
            /\ pc' = "mkdir_tmp"
            /\ UNCHANGED <<pending, outcome>>
       ELSE /\ pc' = "copy"
            /\ pending' = Listing(cache.dir)
            /\ UNCHANGED <<cache, outcome>>
    /\ UNCHANGED <<mvars, rvars, pvars, cvars, xvars, remote, tmp, outbox, runs, hist>>

\* lines 359-360: verify_directory_checksum(cache_dir); line 382: the listing
\* the copy loop walks
FetchVerifyCache ==
    /\ pc = "verify_cache"
    /\ IF VerifyDirectoryChecksum(cache.dir).raised
       THEN Finish("ValidationError", "verify_cache")
       ELSE /\ pc' = "copy"
            /\ pending' = Listing(cache.dir)
            /\ UNCHANGED outcome
    /\ UNCHANGED <<mvars, rvars, pvars, cvars, xvars, remote, cache, tmp, outbox, runs, hist>>

\* line 363: tmp_dir.mkdir
FetchMkTmp ==
    /\ pc = "mkdir_tmp"
    /\ tmp' = IF tmp.exists THEN tmp ELSE EmptyDir
    /\ pc' = "sync"
    /\ UNCHANGED <<mvars, rvars, pvars, cvars, xvars, remote, cache, outbox, pending, outcome, runs, hist>>

\* lines 365-373, aws s3 sync exits 0: every remote file is in tmp_dir;
\* line 375 begins: remove_pattern lists the names under tmp_dir
FetchSyncOk ==
    /\ pc = "sync"
    /\ LET files == [n \in DOMAIN tmp.dir.files \cup DOMAIN remote |->
                        IF n \in DOMAIN remote THEN remote[n] ELSE tmp.dir.files[n]]
       IN  /\ tmp' = [tmp EXCEPT !.dir.files = files]
           /\ pending' = DOMAIN files
           /\ hist' = [hist EXCEPT !.syncRuns = @ \cup {runs},
                                   !.syncCalls = @ + 1, !.listed = DOMAIN files]
    /\ pc' = "normalize"
    /\ UNCHANGED <<mvars, rvars, pvars, cvars, xvars, remote, cache, outbox, outcome, runs>>

\* aws s3 sync pointed at cache_dir instead of tmp_dir, exiting non-zero
\* after it fetched some of the files
FetchSyncFailIntoCache ==
    /\ pc = "sync"
    /\ \E S \in SUBSET DOMAIN remote :
          /\ S # DOMAIN remote \/ remote = EmptyFiles
          /\ cache' = [exists |-> TRUE,
                       dir |-> [cache.dir EXCEPT !.files =
                          [n \in DOMAIN cache.dir.files \cup S |->
                              IF n \in S THEN remote[n] ELSE cache.dir.files[n]]]]
    /\ hist' = [hist EXCEPT !.syncRuns = @ \cup {runs}, !.syncCalls = @ + 1]
    /\ Finish("SystemExit", "sync")
    /\ UNCHANGED <<mvars, rvars, pvars, cvars, xvars, remote, tmp, outbox, runs>>

\* lines 365-373 and 123-130, aws s3 sync exits non-zero after it fetched
\* some of the files: run() ends the process with sys.exit
FetchSyncFail ==
    /\ pc = "sync"
    /\ \E S \in SUBSET DOMAIN remote :
          /\ S # DOMAIN remote \/ remote = EmptyFiles
          /\ tmp' = [tmp EXCEPT !.dir.files =
                        [n \in DOMAIN tmp.dir.files \cup S |->
                            IF n \in S THEN remote[n] ELSE tmp.dir.files[n]]]
    /\ hist' = [hist EXCEPT !.syncRuns = @ \cup {runs}, !.syncCalls = @ + 1]
    /\ Finish("SystemExit", "sync")
    /\ UNCHANGED <<mvars, rvars, pvars, cvars, xvars, remote, cache, outbox, runs>>

\* lines 579-586: remove_pattern visits one listed path; paths of one depth
\* come in the order of the directory listing, which is any order
FetchNormalizeStep ==
    /\ pc = "normalize"
    /\ \E n \in pending :
          /\ pending' = pending \ {n}
          /\ tmp' = IF RemoveAll(n, LoPattern) # n
                    THEN [tmp EXCEPT !.dir.files =
                              RenameIn(@, n, RemoveAll(n, LoPattern))]
                    ELSE tmp
    /\ UNCHANGED <<mvars, rvars, pvars, cvars, xvars, remote, cache, outbox, pc, outcome, runs, hist>>

\* line 375 ends: remove_pattern returns
FetchNormalizeDone ==
    /\ pc = "normalize"
    /\ pending = {}
    /\ pc' = "rename"
    /\ hist' = [hist EXCEPT !.normalized = tmp.dir.files]
    /\ UNCHANGED <<mvars, rvars, pvars, cvars, xvars, remote, cache, tmp, outbox, pending, outcome, runs>>

\* line 377: tmp_dir.rename(cache_dir), one rename(2) call; an existing
\* cache_dir is replaced when it is empty and makes the call fail otherwise
FetchRename ==
    /\ pc = "rename"
    /\ IF cache.exists /\ Listing(cache.dir) # {}
       THEN /\ Finish("OSError", "rename")
            /\ UNCHANGED <<cache, tmp>>
       ELSE /\ cache' = tmp
            /\ tmp' = NoDir
            /\ pc' = "manifest_open"
            /\ UNCHANGED <<pending, outcome>>
    /\ UNCHANGED <<mvars, rvars, pvars, cvars, xvars, remote, outbox, runs, hist>>

\* lines 238-240: both manifest files are opened for writing (made empty),
\* then the directory is listed
FetchManifestOpen ==
    /\ pc = "manifest_open"
    /\ cache' = [cache EXCEPT !.dir.cksum = TextFile(<<>>),
                              !.dir.info = TextFile(<<>>)]
    /\ pending' = DOMAIN cache.dir.files
    /\ pc' = "manifest_write"
    /\ UNCHANGED <<mvars, rvars, pvars, cvars, xvars, remote, tmp, outbox, outcome, runs, hist>>

\* lines 240-257: the next file in sorted order is hashed and gets its line
\* in both manifest files
FetchManifestWrite ==
    /\ pc = "manifest_write"
    /\ pending # {}
    /\ LET n == Head(Sorted(pending))
       IN  /\ pending' = pending \ {n}
           /\ cache' = [cache EXCEPT
                 !.dir.cksum.lines = Append(@, ChecksumLine(n, cache.dir.files[n])),
                 !.dir.info.lines = Append(@, InfoLine(n, cache.dir.files[n]))]
    /\ UNCHANGED <<mvars, rvars, pvars, cvars, xvars, remote, tmp, outbox, pc, outcome, runs, hist>>

\* lines 259-260, 382: the manifest is closed; the copy loop lists cache_dir
FetchManifestDone ==
    /\ pc = "manifest_write"
    /\ pending = {}
    /\ pending' = Listing(cache.dir)
    /\ pc' = "copy"
    /\ UNCHANGED <<mvars, rvars, pvars, cvars, xvars, remote, cache, tmp, outbox, outcome, runs, hist>>

\* line 383: shutil.copy2 of one listed file into the outbox. The copy of a
\* data file may silently write other bytes or nothing at all.
FetchCopyStep ==
    /\ pc = "copy"
    /\ \E n \in pending :
          /\ pending' = pending \ {n}
          /\ \/ /\ n = CksumName
                /\ outbox' = [outbox EXCEPT !.cksum = cache.dir.cksum]
                /\ hist' = [hist EXCEPT !.copied = @ + 1]
             \/ /\ n = InfoName
                /\ outbox' = [outbox EXCEPT !.info = cache.dir.info]
                /\ hist' = [hist EXCEPT !.copied = @ + 1]
             \/ /\ n \in DOMAIN cache.dir.files
                /\ outbox' = [outbox EXCEPT !.files = With(@, n, cache.dir.files[n])]
                /\ hist' = [hist EXCEPT !.copied = @ + 1]
             \/ /\ n \in DOMAIN cache.dir.files
                /\ hist.faults < MaxFaults
                /\ \E c \in Damaged(cache.dir.files[n]) :
                      outbox' = [outbox EXCEPT !.files = With(@, n, c)]
                /\ hist' = [hist EXCEPT !.copied = @ + 1, !.faults = @ + 1]
             \/ /\ n \in DOMAIN cache.dir.files
                /\ hist.faults < MaxFaults
                /\ outbox' = outbox
                /\ hist' = [hist EXCEPT !.faults = @ + 1]
    /\ UNCHANGED <<mvars, rvars, pvars, cvars, xvars, remote, cache, tmp, pc, outcome, runs>>

\* lines 385-388 without the verification of the outbox
FetchVerifyOutboxSkipped ==
    /\ pc = "copy"
    /\ pending = {}
    /\ Finish("returned", "none")
    /\ UNCHANGED <<mvars, rvars, pvars, cvars, xvars, remote, cache, tmp, outbox, runs, hist>>

\* lines 385-388: verify_directory_checksum(outbox), then the return
FetchVerifyOutbox ==
    /\ pc = "copy"
    /\ pending = {}
    /\ IF VerifyDirectoryChecksum(outbox).raised
       THEN Finish("ValidationError", "verify_outbox")
       ELSE Finish("returned", "none")
    /\ UNCHANGED <<mvars, rvars, pvars, cvars, xvars, remote, cache, tmp, outbox, runs, hist>>

\* the process is killed between two steps of fetch_batch_files
FetchInterrupt ==
    /\ pc # "idle"
    /\ Finish("interrupted", pc)
    /\ UNCHANGED <<mvars, rvars, pvars, cvars, xvars, remote, cache, tmp, outbox, runs, hist>>

\* between two invocations a file of the cache is corrupted or deleted
CacheTamper ==
    /\ pc = "idle"
    /\ cache.exists
    /\ ~hist.tampered
    /\ \E n \in DOMAIN cache.dir.files :
          \/ \E c \in Damaged(cache.dir.files[n]) :
                cache' = [cache EXCEPT !.dir.files[n] = c]
          \/ cache' = [cache EXCEPT !.dir.files = Without(@, n)]
    /\ hist' = [hist EXCEPT !.tampered = TRUE]
    /\ UNCHANGED <<mvars, rvars, pvars, cvars, xvars, remote, tmp, outbox, pc, pending, outcome, runs>>

NextFetch ==
    \/ FetchStart \/ FetchRemoveStaleTmp \/ FetchGlob \/ FetchVerifyCache
    \/ FetchMkTmp \/ FetchSyncOk \/ FetchSyncFail
    \/ FetchNormalizeStep \/ FetchNormalizeDone \/ FetchRename
    \/ FetchManifestOpen \/ FetchManifestWrite \/ FetchManifestDone
    \/ FetchCopyStep \/ FetchVerifyOutbox
    \/ FetchInterrupt \/ CacheTamper

SpecFetch == InitFetch /\ [][NextFetch]_vars

----------------------------------------------------------------------------
(* Rename specification: rename_files is called, again and again, on a     *)
(* book's master image directory and OCR directory                         *)

InitRename ==
    /\ seDir \in {MasterSet(m) : m \in 0..MaxPages}
    /\ \E t \in 0..(MaxPages + 1) : \E h \in 0..(MaxPages + 1) :
         \E off \in 0..1 : \E bom \in BOOLEAN :
           \E prior \in {{}} \cup {{x} : x \in PriorNames} :
              /\ bom => t > 0
              /\ yaiDir = [n \in SourceNames((off + 1)..(off + t),
                                             (off + 1)..(off + h), bom)
                                    \cup prior |-> n]
    /\ perms \in BOOLEAN
    /\ rcalls = 0
    /\ rres = NoCall
    /\ ManifestAtRest
    /\ FetchAtRest
    /\ PdfAtRest
    /\ CountsAtRest
    /\ RaceAtRest

\* rename_files(se_dir, yai_dir, dry_run, colorize, check_perms)
RenameCall ==
    /\ rcalls < MaxCalls
    /\ \E dry_run \in BOOLEAN : \E check_perms \in BOOLEAN :
          LET r == RenameFiles(seDir, yaiDir, perms, dry_run, check_perms)
          IN  /\ yaiDir' = r.dir
              /\ rres' = [called |-> TRUE, error |-> r.error, why |-> r.why,
                          renames |-> r.renames, before |-> yaiDir,
                          after |-> r.dir, dry_run |-> dry_run,
                          check_perms |-> check_perms]
    /\ rcalls' = rcalls + 1
    /\ UNCHANGED <<mvars, fvars, pvars, cvars, xvars, seDir, perms>>

NextRename == RenameCall

SpecRename == InitRename /\ [][NextRename]_vars

----------------------------------------------------------------------------
(* Claims on the integrity manifest *)

\* the file names the last verify reported
Reported == {vres.mismatches[i].file : i \in 1..Len(vres.mismatches)}

\* the files listed at build time that were deleted or changed since
Changed == {n \in DOMAIN snap : n \notin DOMAIN D.files \/ D.files[n] # snap[n]}

\* C1: verifying a directory right after its manifest was built, no file
\* touched in between, raises no ValidationError
C1_RoundTrip ==
    (vres.called /\ D.cksum.exists /\ D.files = snap) => ~vres.raised

\* C2: after a manifest was built, verify reports exactly the listed files
\* that were deleted or changed since: no unchanged file, no added file
C2_ReportsExactlyChanged ==
    (vres.called /\ D.cksum.exists) => Reported = Changed

\* line i of CHECKSUMS.txt names, as verify reads it, a file that is missing
\* or whose digest differs from the recorded one
BadEntry(dir, i) ==
    LET parts == SplitMax1(Strip(dir.cksum.lines[i]))
    IN  /\ Len(parts) = 2
        /\ \/ parts[2] \notin DOMAIN dir.files
           \/ <<HexDigest(dir.files[parts[2]])>> # parts[1]

EntryName(dir, i) == SplitMax1(Strip(dir.cksum.lines[i]))[2]

\* C3: when verify raises over a manifest, it has read every line of the
\* manifest and its ValidationError carries a diagnostic for every line whose
\* file is missing or differs, not only for the first
C3_AllEntriesExamined ==
    (vres.called /\ vres.raised /\ D.cksum.exists) =>
        /\ vres.examined = Len(D.cksum.lines)
        /\ \A i \in 1..Len(D.cksum.lines) :
              BadEntry(D, i) => EntryName(D, i) \in Reported

\* a verify that raised with two bad entries, the first line being one
C3_Witness ==
    /\ vres.called /\ vres.raised /\ D.cksum.exists
    /\ Len(D.cksum.lines) >= 2
    /\ BadEntry(D, 1)
    /\ Cardinality({i \in 1..Len(D.cksum.lines) : BadEntry(D, i)}) >= 2
    /\ Cardinality(Reported) >= 2

----------------------------------------------------------------------------
(* Claims on the batch cache *)

\* the file names CHECKSUMS.txt of dir lists, as verify reads them
ListedNames(dir) ==
    {SplitMax1(Strip(dir.cksum.lines[i]))[2] :
        i \in {k \in 1..Len(dir.cksum.lines) :
                  Len(SplitMax1(Strip(dir.cksum.lines[k]))) = 2}}

\* C4: when fetch_batch_files finds a populated cache whose verification
\* fails, the invocation ends there with ValidationError: it has called no
\* sync, has left cache_dir as it found it and has copied nothing to the
\* outbox
C4_FailClosed ==
    [][(/\ pc = "verify_cache"
        /\ VerifyDirectoryChecksum(cache.dir).raised
        /\ outcome'.kind # "interrupted")
       => (/\ pc' = "idle"
           /\ outcome' = Ended("ValidationError", "verify_cache")
           /\ cache' = hist.cacheAtStart
           /\ outbox' = hist.outboxAtStart
           /\ runs \notin hist'.syncRuns
           /\ hist'.copied = 0)]_vars

\* an invocation ended with ValidationError on a damaged cache that has its
\* manifest
C4_Witness ==
    /\ pc = "idle"
    /\ outcome = Ended("ValidationError", "verify_cache")
    /\ hist.tampered
    /\ cache.dir.cksum.exists
    /\ Len(cache.dir.cksum.lines) >= 1

\* C5: whatever step the build is at, failed at or was killed at, cache_dir
\* holds no file or holds exactly the files the sync produced, normalized
C5_AtomicCacheBuild ==
    (cache.exists /\ ~hist.tampered) =>
        \/ cache.dir.files = EmptyFiles
        \/ /\ cache.dir.files = hist.normalized
           /\ DOMAIN cache.dir.files
                 = {RemoveAll(n, LoPattern) : n \in DOMAIN remote}

\* a build killed after the rename, with a name normalized on the way
C5_Witness ==
    /\ ~hist.tampered
    /\ outcome.kind = "interrupted"
    /\ ZipFiles(cache) # {}
    /\ DOMAIN cache.dir.files # DOMAIN remote

\* C6: whenever cache_dir is seen as populated (it holds a .zip file), its
\* CHECKSUMS.txt exists and lists every file of cache_dir
C6_ManifestCoversCache ==
    ZipFiles(cache) # {} =>
        /\ cache.dir.cksum.exists
        /\ DOMAIN cache.dir.files \subseteq ListedNames(cache.dir)

\* C7: fetch_batch_files has returned normally only if every file the
\* manifest lists is in the outbox with the recorded digest and size
C7_ReturnMeansVerifiedCopy ==
    (pc = "idle" /\ outcome.kind = "returned") =>
        /\ outbox.cksum = cache.dir.cksum
        /\ \A i \in 1..Len(cache.dir.cksum.lines) :
              LET parts == SplitMax1(Strip(cache.dir.cksum.lines[i]))
              IN  Len(parts) = 2 =>
                     /\ parts[2] \in DOMAIN outbox.files
                     /\ <<HexDigest(outbox.files[parts[2]])>> = parts[1]
        /\ \A i \in 1..Len(cache.dir.info.lines) :
              LET m == MatchInfoLine(cache.dir.info.lines[i])
              IN  (m # <<>> /\ m[1] \in ListedNames(cache.dir)) =>
                     Len(outbox.files[m[1]]) = m[2]

\* a normal return with two listed files in the outbox
C7_Witness ==
    /\ pc = "idle"
    /\ outcome.kind = "returned"
    /\ Cardinality(ListedNames(outbox)) >= 2
    /\ ListedNames(outbox) \subseteq DOMAIN outbox.files

\* C8 as stated: no invocation but the first calls the remote sync
C8_OnlyFirstSyncs == hist.syncRuns \subseteq {1}

\* C8, amended: an invocation that starts when cache_dir already holds a
\* .zip file calls no sync and leaves cache_dir as it is
C8_ReadyCacheNotRefetched ==
    [][(pc # "idle" /\ hist.readyAtStart)
       => (hist'.syncCalls = hist.syncCalls /\ cache' = cache)]_vars

\* a second invocation served from the cache the first one built
C8_Witness ==
    /\ runs >= 2
    /\ hist.readyAtStart
    /\ pc = "idle"
    /\ outcome.kind = "returned"
    /\ hist.syncCalls = 1


\* C23: at the moment fetch_batch_files invokes the remote sync of a new
\* cache build, tmp_dir exists and holds no file and no manifest
C23_TmpEmptyAtSync ==
    pc = "sync" =>
        /\ tmp.exists
        /\ Listing(tmp.dir) = {}


\* C24: after fetch_batch_files has returned normally every regular file of
\* the outbox other than the two manifest files is listed in the outbox's
\* CHECKSUMS.txt with the digest of its content
C24_OutboxOnlyValidated ==
    (pc = "idle" /\ outcome.kind = "returned") =>
        \A n \in DOMAIN outbox.files :
            \E i \in 1..Len(outbox.cksum.lines) :
                LET parts == SplitMax1(Strip(outbox.cksum.lines[i]))
                IN  /\ Len(parts) = 2
                    /\ parts[2] = n
                    /\ parts[1] = <<HexDigest(outbox.files[n])>>


\* pattern occurs in name
Contains(name, pattern) ==
    \E k \in 1..(Len(name) - Len(pattern) + 1) :
        SubSeq(name, k, k + Len(pattern) - 1) = pattern

\* C30: when remove_pattern(tmp_dir, "_lo") has returned, tmp_dir holds as
\* many files as remove_pattern found under it, and no name under tmp_dir
\* contains the pattern
C30_NormalizeLosesNoFile ==
    pc = "rename" =>
        /\ Cardinality(DOMAIN tmp.dir.files) = Cardinality(hist.listed)
        /\ \A n \in DOMAIN tmp.dir.files : ~Contains(n, LoPattern)

----------------------------------------------------------------------------
(* Claims on the positional renamer *)

\* the files of dir named by the canonical convention with a renamed
\* extension: <bookid>_<afr|zbk|n><number>_ocr.hocr or .txt
CanonicalFiles(dir) ==
    {n \in DOMAIN dir : n.form = "nyu" /\ n.book = BookId /\ n.ext \in {"hocr", "txt"}}

\* the source files of one extension rename_files was called on
Sources(dir, ext) ==
    {n \in DOMAIN dir : n.form = "yai" /\ n.book = BookId /\ n.ext = ext}

Masters == {n \in seDir : n.suffix = DMAKER_SUFFIX}

\* C9: called on an OCR directory that holds a file with a canonical name
\* (.hocr or .txt), rename_files raises FileRenameError and leaves the
\* directory as it was
C9_RenamedFilesRejected ==
    (rres.called /\ CanonicalFiles(rres.before) # {}) =>
        /\ rres.error = "FileRenameError"
        /\ rres.renames = 0
        /\ rres.after = rres.before

\* C10: a rename_files call that raised FileRenameError has renamed nothing,
\* and it raises FileRenameError whenever there is no master image, no source
\* file of an extension, a count of source files that differs from the count
\* of master images (more or fewer), or a directory it may not write while
\* check_perms is on
C10_ErrorMeansNothingRenamed ==
    rres.called =>
        /\ rres.error = "FileRenameError" =>
              (rres.renames = 0 /\ rres.after = rres.before)
        /\ (\/ Cardinality(Sources(rres.before, "txt")) # Cardinality(Masters)
            \/ Cardinality(Sources(rres.before, "html")) # Cardinality(Masters)
            \/ Masters = {}
            \/ rres.check_perms /\ ~perms)
              => rres.error = "FileRenameError"

\* a call that raised on N .txt files, N master images and N+1 .html files
C10_Witness ==
    /\ rres.called
    /\ rres.error = "FileRenameError"
    /\ ~rres.dry_run
    /\ Cardinality(Masters) >= 1
    /\ Cardinality(Sources(rres.before, "txt")) = Cardinality(Masters)
    /\ Cardinality(Sources(rres.before, "html")) = Cardinality(Masters) + 1
    /\ CanonicalFiles(rres.before) = {}


\* the k-th name of S in sorted order of names without byte order mark
Kth(S, k) == CHOOSE x \in S : Cardinality({y \in S : NameLess(y, x)}) = k - 1

\* <base of the master image>_ocr.<ext>
OcrName(img, ext) == NyuName(img.kind, img.num, ext)

\* C11: after a rename_files call that returned having renamed, with N master
\* images, the k-th source .txt and the k-th source .html file (sorted by name
\* without byte order mark) are found under <base of the k-th master
\* image>_ocr.txt and _ocr.hocr, for every k in 1..N, whatever number the
\* source names carry; the source names are gone
C11_PositionalMatching ==
    (rres.called /\ rres.error = "none" /\ ~rres.dry_run) =>
        LET N == Cardinality(Masters)
            txt == Sources(rres.before, "txt")
            html == Sources(rres.before, "html")
        IN  /\ Cardinality(txt) = N
            /\ Cardinality(html) = N
            /\ \A k \in 1..N :
                  LET img == Kth(Masters, k)
                  IN  /\ OcrName(img, "txt") \in DOMAIN rres.after
                      /\ rres.after[OcrName(img, "txt")] = Kth(txt, k)
                      /\ OcrName(img, "hocr") \in DOMAIN rres.after
                      /\ rres.after[OcrName(img, "hocr")] = Kth(html, k)
            /\ (txt \cup html) \cap DOMAIN rres.after = {}

\* a call that renamed two pages whose source numbers differ from the page
\* positions and whose first .txt name starts with a byte order mark
C11_Witness ==
    /\ rres.called
    /\ rres.error = "none"
    /\ ~rres.dry_run
    /\ Cardinality(Masters) >= 2
    /\ \E n \in Sources(rres.before, "txt") : n.bom
    /\ \A n \in Sources(rres.before, "txt") : n.num > 1
    /\ rres.renames = 2 * Cardinality(Masters)


\* yai_dir holds a file that a rename_files call has renamed
RenamedOnce == \E n \in DOMAIN yaiDir : yaiDir[n] # n

\* C26: once a rename_files call has renamed the files of yai_dir, every
\* further call on the same directories raises FileRenameError and renames
\* nothing
C26_NoSecondRename ==
    [][(RenamedOnce /\ rcalls' = rcalls + 1) =>
          /\ rres'.error = "FileRenameError"
          /\ rres'.renames = 0
          /\ yaiDir' = yaiDir]_vars

\* a call that was not a dry run raised on a directory whose two .txt and
\* two .html files an earlier call had renamed
C26_Witness ==
    /\ rcalls >= 2
    /\ rres.called
    /\ ~rres.dry_run
    /\ rres.error = "FileRenameError"
    /\ Cardinality({n \in DOMAIN rres.before : rres.before[n] # n}) = 4
    /\ yaiDir = rres.before

\* C29: a rename_files call that succeeded and was not a dry run has left
\* as many files in yai_dir as it found, and none of its destination names
\* was in the directory before the call
C29_NoOverwrite ==
    (rres.called /\ rres.error = "none" /\ ~rres.dry_run) =>
        /\ Cardinality(DOMAIN rres.after) = Cardinality(DOMAIN rres.before)
        /\ \A n \in DOMAIN rres.after :
              rres.after[n] # n => n \notin DOMAIN rres.before

----------------------------------------------------------------------------
(* Searchable PDF assembly: generate_pdf, generate_pdf_parallel, merge_pdfs *)

\* the hOCR paths a caller may pass, named by their rank in string order
HocrPaths == {1, 2}

\* the hocr_files lists of the calls
HocrLists == SeqsUpTo(HocrPaths, MaxPdfPages)

\* the jar files PDFBox needs (line 679)
JarNames == {"pdfbox", "pdfbox-tools", "commons-logging"}

\* a machine a call may run on: what shutil.which finds, the jar files that
\* exist, and whether the temporary directory and output_file are on one
\* file system
Env(magick, qpdf, pdftk, java, jars, samefs) ==
    [magick |-> magick, qpdf |-> qpdf, pdftk |-> pdftk, java |-> java,
     jars |-> jars, samefs |-> samefs]

\* the machines generate_pdf is tried on: with and without ImageMagick, the
\* output on the file system of the temporary directory or on another
PoolEnvs ==
    {Env(TRUE, TRUE, TRUE, TRUE, JarNames, TRUE),
     Env(TRUE, TRUE, TRUE, TRUE, JarNames, FALSE),
     Env(FALSE, TRUE, TRUE, TRUE, JarNames, TRUE)}

\* the machines generate_pdf_parallel is tried on: those of generate_pdf,
\* one without qpdf and one without any merge tool
ParallelEnvs ==
    PoolEnvs \cup {Env(TRUE, FALSE, TRUE, TRUE, JarNames, TRUE),
                   Env(TRUE, FALSE, FALSE, FALSE, {}, TRUE)}

\* the machines the merge is tried on: every combination of qpdf, pdftk and
\* java, with all jar files, one missing or none, and a machine with every
\* tool whose output is on another file system
MergeEnvs ==
    {Env(TRUE, q, p, j, jars, TRUE) :
        q \in BOOLEAN, p \in BOOLEAN, j \in BOOLEAN,
        jars \in {JarNames, JarNames \ {"pdfbox-tools"}, {}}}
      \cup {Env(TRUE, TRUE, TRUE, TRUE, JarNames, FALSE)}

\* the img_files and hocr_files of the calls: as many hOCR files as images,
\* or one more
PageArgs ==
    {a \in (0..MaxPdfPages) \X HocrLists : Len(a[2]) \in {a[1], a[1] + 1}}

\* the ascending sequence of a set of page numbers: sorted() over names that
\* are the page number in six digits
RECURSIVE SortedPages(_)
SortedPages(S) ==
    IF S = {} THEN <<>>
    ELSE LET m == CHOOSE x \in S : \A y \in S : x <= y
         IN  <<m>> \o SortedPages(S \ {m})

\* one run_command call: the tool, the pipeline stage it serves, the page it
\* works on (0: the whole document) and whether it exited with status zero
Cmd(tool, stage, page, ok) == [tool |-> tool, stage |-> stage, page |-> page, ok |-> ok]

RunningPages == {i \in DOMAIN pageSt : pageSt[i] = "running"}

QueuedPages == {i \in DOMAIN pageSt : pageSt[i] = "queued"}

\* tempfile.TemporaryDirectory(): a new, empty directory
NewScratch ==
    [exists |-> TRUE, pages |-> {}, files |-> <<>>,
     docs |-> [f \in TmpNames |-> NoDoc]]

\* the call is over: what it raised or that it returned, and whether the
\* temporary directory is removed on the way out
EndCall(kind, error, at, cleanup) ==
    /\ pres' = [kind |-> kind, error |-> error, at |-> at]
    /\ ppc' = "idle"
    /\ scratch' = IF cleanup THEN NoScratch ELSE scratch

InitPdf ==
    /\ pcall = NoPdfCall
    /\ ppc = "idle"
    /\ pageSt = <<>>
    /\ collected = <<>>
    /\ scratch = NoScratch
    /\ dest \in {NoDoc, Doc(<<>>, <<"previous">>)}
    /\ cmds = <<>>
    /\ pres = NoPdfResult
    /\ pobs = NoPdfObs
    /\ pcalls = 0
    /\ srcFiles = {}
    /\ ManifestAtRest
    /\ FetchAtRest
    /\ RenameAtRest
    /\ CountsAtRest
    /\ RaceAtRest

\* the arguments and the machine of a call of fn
CallOf(fn, nimg, hocrs, inputs, overwrite, workers, tmpdir, keep_sources, e) ==
    [fn |-> fn, nimg |-> nimg, hocrs |-> hocrs, inputs |-> inputs,
     overwrite |-> overwrite, workers |-> workers, tmpdir |-> tmpdir,
     keep_sources |-> keep_sources,
     magick |-> e.magick, qpdf |-> e.qpdf, pdftk |-> e.pdftk, java |-> e.java,
     jars |-> e.jars, samefs |-> e.samefs]

\* generate_pdf lines 267-308 without the test for an empty img_files
PoolCallStartNoEmptyCheck(c) ==
    /\ pcalls' = pcalls + 1
    /\ pcall' = c
    /\ cmds' = <<>>
    /\ collected' = <<>>
    /\ UNCHANGED dest
    /\ IF ~c.overwrite /\ dest.exists
       THEN /\ EndCall("returned", "none", "exists", TRUE)
            /\ pageSt' = <<>>
            /\ pobs' = [NoPdfObs EXCEPT !.destAtStart = dest]
       ELSE IF c.nimg # Len(c.hocrs)
       THEN /\ EndCall("raised", "ValueError", "arguments", TRUE)
            /\ pageSt' = <<>>
            /\ pobs' = [NoPdfObs EXCEPT !.destAtStart = dest]
       ELSE IF ~c.magick
       THEN /\ EndCall("raised", "SystemExit", "get_magick_cmd", TRUE)
            /\ pageSt' = <<>>
            /\ pobs' = [NoPdfObs EXCEPT !.destAtStart = dest]
       ELSE /\ ppc' = "pool"
            /\ pres' = NoPdfResult
            /\ scratch' = NewScratch
            /\ pageSt' = [i \in 1..c.nimg |-> "queued"]
            /\ pobs' = [NoPdfObs EXCEPT !.destAtStart = dest, !.made = TRUE]

\* generate_pdf lines 267-308 and generate_pdf_parallel lines 499-539: the
\* checks, the temporary directory and the submission of every page
PoolCallStart(c) ==
    /\ pcalls' = pcalls + 1
    /\ pcall' = c
    /\ cmds' = <<>>
    /\ collected' = <<>>
    /\ UNCHANGED dest
    /\ IF ~c.overwrite /\ dest.exists
       THEN /\ EndCall("returned", "none", "exists", TRUE)
            /\ pageSt' = <<>>
            /\ pobs' = [NoPdfObs EXCEPT !.destAtStart = dest]
       ELSE IF c.nimg # Len(c.hocrs) \/ c.nimg = 0
       THEN /\ EndCall("raised", "ValueError", "arguments", TRUE)
            /\ pageSt' = <<>>
            /\ pobs' = [NoPdfObs EXCEPT !.destAtStart = dest]
       ELSE IF ~c.magick
       THEN /\ EndCall("raised", "SystemExit", "get_magick_cmd", TRUE)
            /\ pageSt' = <<>>
            /\ pobs' = [NoPdfObs EXCEPT !.destAtStart = dest]
       ELSE /\ ppc' = "pool"
            /\ pres' = NoPdfResult
            /\ scratch' = NewScratch
            /\ pageSt' = [i \in 1..c.nimg |-> "queued"]
            /\ pobs' = [NoPdfObs EXCEPT !.destAtStart = dest, !.made = TRUE]

\* generate_pdf(img_files, hocr_files, output_file, dpi, max_workers,
\* use_processes, overwrite)
GeneratePdfStart ==
    /\ ppc = "idle"
    /\ pres.kind = "none"
    /\ pcalls < MaxPdfCalls
    /\ \E a \in PageArgs : \E overwrite \in BOOLEAN :
         \E workers \in {1, MaxWorkers} : \E e \in PoolEnvs :
            PoolCallStart(CallOf("generate_pdf", a[1], a[2], <<>>, overwrite,
                                 workers, FALSE, TRUE, e))
    /\ UNCHANGED <<mvars, fvars, rvars, cvars, xvars, srcFiles>>

\* generate_pdf_parallel(img_files, hocr_files, output_file, dpi,
\* max_workers, use_processes): it has no overwrite argument
GeneratePdfParallelStart ==
    /\ ppc = "idle"
    /\ pres.kind = "none"
    /\ pcalls < MaxPdfCalls
    /\ \E a \in PageArgs : \E workers \in {1, MaxWorkers} :
         \E e \in ParallelEnvs :
            PoolCallStart(CallOf("generate_pdf_parallel", a[1], a[2], <<>>,
                                 FALSE, workers, FALSE, TRUE, e))
    /\ UNCHANGED <<mvars, fvars, rvars, cvars, xvars, srcFiles>>

\* a worker of the pool takes the next submitted page: at most max_workers
\* pages run at a time, and the executor's shutdown(wait=True) lets the
\* pages still queued run too
PageStart ==
    /\ ppc \in {"pool", "shutdown"}
    /\ Cardinality(RunningPages) < pcall.workers
    /\ \E i \in QueuedPages :
          /\ \A j \in QueuedPages : i <= j
          /\ pageSt' = [pageSt EXCEPT ![i] = "running"]
    /\ UNCHANGED <<mvars, fvars, rvars, cvars, xvars, srcFiles, pcall, ppc, collected, scratch, dest,
                   cmds, pres, pobs, pcalls>>

\* f"{i:06}": the page number in six decimal digits
PageNum(i) == [k \in 1..6 |-> (i \div (10 ^ (6 - k))) % 10]

\* lines 200-202 with the same two names for every page
PagePathsUnnumbered(i) ==
    {[name |-> PageNum(0), ext |-> ext] : ext \in {"jpg", "hocr"}}

\* lines 200-202: dst_img and dst_hocr of page i, <workdir>/<page_num>.jpg
\* and <workdir>/<page_num>.hocr
PagePaths(i) ==
    {[name |-> PageNum(i), ext |-> ext] : ext \in {"jpg", "hocr"}}

DstImg(i) == CHOOSE path \in PagePaths(i) : path.ext = "jpg"

DstHocr(i) == CHOOSE path \in PagePaths(i) : path.ext = "hocr"

\* the running pages whose resampled image is written
ResampledPages ==
    {i \in RunningPages :
        DstImg(i) \in DOMAIN scratch.files /\ scratch.files[DstImg(i)] = i}

\* process_page lines 204-211: the resampler exits zero and has written
\* dst_img, over whatever was at that path
PageResample ==
    /\ ppc \in {"pool", "shutdown"}
    /\ \E i \in RunningPages \ ResampledPages :
          /\ scratch' = [scratch EXCEPT !.files = With(@, DstImg(i), i)]
          /\ pobs' = [pobs EXCEPT !.clobbered =
                          @ \/ DstImg(i) \in DOMAIN scratch.files]
          /\ cmds' = Append(cmds, Cmd("magick", "resample", i, TRUE))
    /\ UNCHANGED <<mvars, fvars, rvars, cvars, xvars, srcFiles, pcall, ppc, pageSt,
                   collected, dest, pres, pcalls>>

\* process_page lines 214-217: os.symlink(src_hocr, dst_hocr) and the return;
\* os.symlink raises FileExistsError where dst_hocr is there already, and the
\* future holds the exception
PageDone ==
    /\ ppc \in {"pool", "shutdown"}
    /\ \E i \in ResampledPages :
          IF DstHocr(i) \in DOMAIN scratch.files
          THEN /\ pageSt' = [pageSt EXCEPT ![i] = "failed"]
               /\ scratch' = scratch
          ELSE /\ pageSt' = [pageSt EXCEPT ![i] = "done"]
               /\ scratch' = [scratch EXCEPT !.pages = @ \cup {i},
                                             !.files = With(@, DstHocr(i), i)]
    /\ UNCHANGED <<mvars, fvars, rvars, cvars, xvars, srcFiles, pcall, ppc, collected,
                   dest, cmds, pres, pobs, pcalls>>

\* process_page: the resampler exits non-zero, run_command calls sys.exit(1)
\* and the future holds the SystemExit
PageFail ==
    /\ ppc \in {"pool", "shutdown"}
    /\ \E i \in RunningPages \ ResampledPages :
          /\ pageSt' = [pageSt EXCEPT ![i] = "failed"]
          /\ cmds' = Append(cmds, Cmd("magick", "resample", i, FALSE))
    /\ UNCHANGED <<mvars, fvars, rvars, cvars, xvars, srcFiles, pcall, ppc, collected, scratch, dest,
                   pres, pobs, pcalls>>

\* the as_completed loop taking a failed page for a finished one
CollectIgnoresFailure ==
    /\ ppc = "pool"
    /\ \E i \in DOMAIN pageSt :
          /\ \A k \in 1..Len(collected) : collected[k] # i
          /\ pageSt[i] \in {"done", "failed"}
          /\ collected' = Append(collected, i)
          /\ ppc' = ppc
    /\ UNCHANGED <<mvars, fvars, rvars, cvars, xvars, srcFiles, pcall, pageSt, scratch, dest, cmds,
                   pres, pobs, pcalls>>

\* the as_completed loop (lines 319-321, 550-552): future.result() of a
\* finished page either gives its result or raises its SystemExit, which
\* leaves the loop for the executor's shutdown
Collect ==
    /\ ppc = "pool"
    /\ \E i \in DOMAIN pageSt :
          /\ \A k \in 1..Len(collected) : collected[k] # i
          /\ \/ /\ pageSt[i] = "done"
                /\ collected' = Append(collected, i)
                /\ ppc' = ppc
             \/ /\ pageSt[i] = "failed"
                /\ collected' = collected
                /\ ppc' = "shutdown"
    /\ UNCHANGED <<mvars, fvars, rvars, cvars, xvars, srcFiles, pcall, pageSt, scratch, dest, cmds,
                   pres, pobs, pcalls>>

\* the end of a failed pool with the temporary directory left behind
PoolShutdownLeaves ==
    /\ ppc = "shutdown"
    /\ RunningPages = {}
    /\ QueuedPages = {}
    /\ EndCall("raised", "SystemExit", "resample", FALSE)
    /\ UNCHANGED <<mvars, fvars, rvars, cvars, xvars, srcFiles, pcall, pageSt, collected, dest, cmds,
                   pobs, pcalls>>

\* the executor's with block ends once no page is queued or running, the
\* temporary directory's with block removes it, SystemExit goes to the caller
PoolShutdown ==
    /\ ppc = "shutdown"
    /\ RunningPages = {}
    /\ QueuedPages = {}
    /\ EndCall("raised", "SystemExit", "resample", TRUE)
    /\ UNCHANGED <<mvars, fvars, rvars, cvars, xvars, srcFiles, pcall, pageSt, collected, dest, cmds,
                   pobs, pcalls>>

\* generate_pdf: every future has given its result, the executor's with
\* block ends (line 321)
GeneratePdfJoin ==
    /\ ppc = "pool"
    /\ pcall.fn = "generate_pdf"
    /\ Len(collected) = pcall.nimg
    /\ ppc' = "overlay"
    /\ UNCHANGED <<mvars, fvars, rvars, cvars, xvars, srcFiles, pcall, pageSt, collected, scratch, dest,
                   cmds, pres, pobs, pcalls>>

\* lines 333-345: hocr-pdf reads the temporary directory in sorted order of
\* file names and writes <basename>_orig.pdf, or exits non-zero
Overlay ==
    /\ ppc = "overlay"
    /\ \/ /\ cmds' = Append(cmds, Cmd("hocr-pdf", "overlay", 0, TRUE))
          /\ scratch' = [scratch EXCEPT !.docs["orig"] =
                            Doc(SortedPages(scratch.pages), <<"overlay">>)]
          /\ pobs' = [pobs EXCEPT !.handed = SortedPages(scratch.pages),
                                  !.handedOver = TRUE]
          /\ ppc' = "strip"
          /\ pres' = pres
       \/ /\ cmds' = Append(cmds, Cmd("hocr-pdf", "overlay", 0, FALSE))
          /\ EndCall("raised", "SystemExit", "overlay", TRUE)
          /\ pobs' = pobs
    /\ UNCHANGED <<mvars, fvars, rvars, cvars, xvars, srcFiles, pcall, pageSt, collected, dest, pcalls>>

\* lines 351-358: exiftool -all:all= -o <basename>_exif.pdf <basename>_orig.pdf
StripMetadata ==
    /\ ppc = "strip"
    /\ \/ /\ cmds' = Append(cmds, Cmd("exiftool", "strip", 0, TRUE))
          /\ scratch' = [scratch EXCEPT !.docs["exif"] =
                            Doc(scratch.docs["orig"].pages,
                                Append(scratch.docs["orig"].ops, "strip"))]
          /\ ppc' = "linearize"
          /\ pres' = pres
       \/ /\ cmds' = Append(cmds, Cmd("exiftool", "strip", 0, FALSE))
          /\ EndCall("raised", "SystemExit", "strip", TRUE)
    /\ UNCHANGED <<mvars, fvars, rvars, cvars, xvars, srcFiles, pcall, pageSt, collected, dest, pobs,
                   pcalls>>

\* lines 362-367 with the linearizer reading <basename>_orig.pdf
LinearizeUnstripped ==
    /\ ppc = "linearize"
    /\ \/ /\ cmds' = Append(cmds, Cmd("qpdf", "linearize", 0, TRUE))
          /\ scratch' = [scratch EXCEPT !.docs["qpdf"] =
                            Doc(scratch.docs["orig"].pages,
                                Append(scratch.docs["orig"].ops, "linearize"))]
          /\ ppc' = "move"
          /\ pres' = pres
       \/ /\ cmds' = Append(cmds, Cmd("qpdf", "linearize", 0, FALSE))
          /\ EndCall("raised", "SystemExit", "linearize", TRUE)
    /\ UNCHANGED <<mvars, fvars, rvars, cvars, xvars, srcFiles, pcall, pageSt, collected, dest, pobs,
                   pcalls>>

\* lines 362-367: qpdf --linearize <basename>_exif.pdf <basename>_qpdf.pdf
Linearize ==
    /\ ppc = "linearize"
    /\ \/ /\ cmds' = Append(cmds, Cmd("qpdf", "linearize", 0, TRUE))
          /\ scratch' = [scratch EXCEPT !.docs["qpdf"] =
                            Doc(scratch.docs["exif"].pages,
                                Append(scratch.docs["exif"].ops, "linearize"))]
          /\ ppc' = "move"
          /\ pres' = pres
       \/ /\ cmds' = Append(cmds, Cmd("qpdf", "linearize", 0, FALSE))
          /\ EndCall("raised", "SystemExit", "linearize", TRUE)
    /\ UNCHANGED <<mvars, fvars, rvars, cvars, xvars, srcFiles, pcall, pageSt, collected, dest, pobs,
                   pcalls>>

\* the file shutil.move takes: tmp_file_qpdf (line 371), tmp_file_opt (721)
MoveSrc == IF pcall.fn = "generate_pdf" THEN "qpdf" ELSE "opt"

\* shutil.move(src, output_file) with both on one file system: os.rename
MoveRename ==
    /\ ppc = "move"
    /\ pcall.samefs
    /\ dest' = scratch.docs[MoveSrc]
    /\ scratch' = [scratch EXCEPT !.docs[MoveSrc] = NoDoc]
    /\ ppc' = "finish"
    /\ UNCHANGED <<mvars, fvars, rvars, cvars, xvars, srcFiles, pcall, pageSt, collected, cmds, pres,
                   pobs, pcalls>>

\* shutil.move(src, output_file) across file systems: os.rename fails and
\* the file is copied; output_file is opened and filled
MoveCopyBegin ==
    /\ ppc = "move"
    /\ ~pcall.samefs
    /\ dest' = [scratch.docs[MoveSrc] EXCEPT !.whole = FALSE]
    /\ ppc' = "copying"
    /\ UNCHANGED <<mvars, fvars, rvars, cvars, xvars, srcFiles, pcall, pageSt, collected, scratch, cmds,
                   pres, pobs, pcalls>>

\* the copy is complete and the source is unlinked
MoveCopyEnd ==
    /\ ppc = "copying"
    /\ dest' = scratch.docs[MoveSrc]
    /\ scratch' = [scratch EXCEPT !.docs[MoveSrc] = NoDoc]
    /\ ppc' = "finish"
    /\ UNCHANGED <<mvars, fvars, rvars, cvars, xvars, srcFiles, pcall, pageSt, collected, cmds, pres,
                   pobs, pcalls>>

\* the input files the loop of lines 724-729 has still to visit: it goes
\* through input_files in order and ends at the first failure
ToUnlink ==
    IF pcall.fn = "merge_pdfs" /\ ~pcall.keep_sources
    THEN {i \in srcFiles : \E k \in 1..Len(pcall.inputs) : pcall.inputs[k] = i}
    ELSE {}

\* lines 723-729 without the test of keep_sources
UnlinkSourceAlways ==
    /\ ppc = "finish"
    /\ pcall.fn = "merge_pdfs"
    /\ srcFiles # {}
    /\ LET file == CHOOSE i \in srcFiles : \A j \in srcFiles : i <= j
       IN  \/ /\ srcFiles' = srcFiles \ {file}
              /\ UNCHANGED <<ppc, pres, scratch, pobs>>
           \/ /\ srcFiles' = srcFiles
              /\ pobs' = [pobs EXCEPT !.unlinkFailed = TRUE]
              /\ EndCall("raised", "RuntimeError", "unlink", ~pcall.tmpdir)
    /\ UNCHANGED <<mvars, fvars, rvars, cvars, xvars, pcall, pageSt, collected, dest, cmds,
                   pcalls>>

\* lines 723-729, one turn of the loop: os.unlink removes the next input
\* file, or raises OSError and the call raises RuntimeError
UnlinkSource ==
    /\ ppc = "finish"
    /\ ToUnlink # {}
    /\ LET file == CHOOSE i \in ToUnlink : \A j \in ToUnlink : i <= j
       IN  \/ /\ srcFiles' = srcFiles \ {file}
              /\ UNCHANGED <<ppc, pres, scratch, pobs>>
           \/ /\ srcFiles' = srcFiles
              /\ pobs' = [pobs EXCEPT !.unlinkFailed = TRUE]
              /\ EndCall("raised", "RuntimeError", "unlink", ~pcall.tmpdir)
    /\ UNCHANGED <<mvars, fvars, rvars, cvars, xvars, pcall, pageSt, collected, dest, cmds,
                   pcalls>>

\* the call returns: a temporary directory the call made is removed by its
\* with block, one the caller of merge_pdfs gave is left alone
PdfFinish ==
    /\ ppc = "finish"
    /\ ToUnlink = {}
    /\ EndCall("returned", "none", "end", ~pcall.tmpdir)
    /\ UNCHANGED <<mvars, fvars, rvars, cvars, xvars, srcFiles, pcall, pageSt, collected, dest, cmds,
                   pobs, pcalls>>

\* _do_merge lines 682-707 with pdftk tried before qpdf
SelectToolPdftkFirst(c) ==
    IF c.pdftk THEN "pdftk"
    ELSE IF c.qpdf THEN "qpdf"
    ELSE IF c.java /\ c.jars = JarNames THEN "pdfbox"
    ELSE "none"

\* _do_merge lines 682-707: the tool of the concatenation command
SelectTool(c) ==
    IF c.qpdf THEN "qpdf"
    ELSE IF c.pdftk THEN "pdftk"
    ELSE IF c.java /\ c.jars = JarNames THEN "pdfbox"
    ELSE "none"

\* process_page's result for page i: (src_hocr, dst_hocr), the second being
\* the page number in six digits
PageResult(c, i) == <<c.hocrs[i], i>>

\* the order of Python tuples
TupleLess(a, b) == a[1] < b[1] \/ (a[1] = b[1] /\ a[2] < b[2])

\* page_pdf_files.sort() (line 554)
RECURSIVE SortTuples(_)
SortTuples(S) ==
    IF S = {} THEN <<>>
    ELSE LET m == CHOOSE x \in S : \A y \in S \ {x} : TupleLess(x, y)
         IN  <<m>> \o SortTuples(S \ {m})

\* _do_merge lines 669-707, entered with input_files: the tool is chosen and
\* the command built, or RuntimeError raised
DoMergeSelect(c, input_files, cleanup) ==
    LET tool == SelectTool(c)
    IN  /\ pobs' = [pobs EXCEPT !.handed = input_files, !.handedOver = TRUE,
                                !.tool = tool, !.destAtStart = dest,
                                !.made = cleanup]
        /\ IF tool = "none"
           THEN EndCall("raised", "RuntimeError", "select", cleanup)
           ELSE /\ ppc' = "concat"
                /\ pres' = NoPdfResult
                /\ scratch' = [scratch EXCEPT !.exists = TRUE]

\* generate_pdf_parallel lines 554-555: every future has given its result,
\* the results are sorted and handed to merge_pdfs with the temporary
\* directory
ParallelJoin ==
    /\ ppc = "pool"
    /\ pcall.fn = "generate_pdf_parallel"
    /\ Len(collected) = pcall.nimg
    /\ LET page_pdf_files ==
               SortTuples({PageResult(pcall, collected[k]) : k \in 1..Len(collected)})
       IN  DoMergeSelect(pcall, [k \in 1..Len(page_pdf_files) |-> page_pdf_files[k][2]],
                         TRUE)
    /\ UNCHANGED <<mvars, fvars, rvars, cvars, xvars, srcFiles, pcall, pageSt, collected, dest, cmds,
                   pcalls>>

\* merge_pdfs(input_files, output_file, tmpdir, keep_sources) lines 653-659
\* and _do_merge lines 669-707: input_files are the page PDFs 1..n
MergePdfsStart ==
    /\ ppc = "idle"
    /\ pres.kind = "none"
    /\ pcalls < MaxPdfCalls
    /\ pcalls' = pcalls + 1
    /\ \E n \in 0..MaxPdfPages : \E tmpdir \in BOOLEAN :
         \E keep_sources \in BOOLEAN : \E e \in MergeEnvs :
            LET c == CallOf("merge_pdfs", 0, <<>>, [i \in 1..n |-> i], FALSE, 1,
                            tmpdir, keep_sources, e)
            IN  /\ pcall' = c
                /\ srcFiles' = 1..n
                /\ DoMergeSelect(c, c.inputs, ~tmpdir)
    /\ cmds' = <<>>
    /\ collected' = <<>>
    /\ pageSt' = <<>>
    /\ UNCHANGED <<mvars, fvars, rvars, cvars, xvars, dest>>

\* line 709, run_command(cmd): subprocess.run raises TypeError on the tuples
\* generate_pdf_parallel hands over; otherwise the tool writes
\* <basename>_merged.pdf from the input files in the order given, or exits
\* non-zero
Concat ==
    /\ ppc = "concat"
    /\ IF pcall.fn = "generate_pdf_parallel"
       THEN /\ EndCall("raised", "TypeError", "concat", TRUE)
            /\ cmds' = cmds
       ELSE \/ /\ cmds' = Append(cmds, Cmd(pobs.tool, "concat", 0, TRUE))
               /\ scratch' = [scratch EXCEPT !.docs["merged"] =
                                 Doc(pobs.handed, <<"concat">>)]
               /\ ppc' = "mstrip"
               /\ pres' = pres
            \/ /\ cmds' = Append(cmds, Cmd(pobs.tool, "concat", 0, FALSE))
               /\ EndCall("raised", "SystemExit", "concat", ~pcall.tmpdir)
    /\ UNCHANGED <<mvars, fvars, rvars, cvars, xvars, srcFiles, pcall, pageSt, collected, dest, pobs,
                   pcalls>>

\* line 713: exiftool -all:all= <basename>_merged.pdf rewrites the file
MergeStrip ==
    /\ ppc = "mstrip"
    /\ \/ /\ cmds' = Append(cmds, Cmd("exiftool", "strip", 0, TRUE))
          /\ scratch' = [scratch EXCEPT !.docs["merged"].ops = Append(@, "strip")]
          /\ ppc' = "mlinearize"
          /\ pres' = pres
       \/ /\ cmds' = Append(cmds, Cmd("exiftool", "strip", 0, FALSE))
          /\ EndCall("raised", "SystemExit", "strip", ~pcall.tmpdir)
    /\ UNCHANGED <<mvars, fvars, rvars, cvars, xvars, srcFiles, pcall, pageSt, collected, dest, pobs,
                   pcalls>>

\* line 717: run_command([qpdf, "--linearize", merged, optimized]) with qpdf
\* the result of shutil.which: None where qpdf is not installed, and
\* subprocess.run raises TypeError
MergeLinearize ==
    /\ ppc = "mlinearize"
    /\ IF ~pcall.qpdf
       THEN /\ EndCall("raised", "TypeError", "linearize", ~pcall.tmpdir)
            /\ cmds' = cmds
       ELSE \/ /\ cmds' = Append(cmds, Cmd("qpdf", "linearize", 0, TRUE))
               /\ scratch' = [scratch EXCEPT !.docs["opt"] =
                                 Doc(scratch.docs["merged"].pages,
                                     Append(scratch.docs["merged"].ops, "linearize"))]
               /\ ppc' = "move"
               /\ pres' = pres
            \/ /\ cmds' = Append(cmds, Cmd("qpdf", "linearize", 0, FALSE))
               /\ EndCall("raised", "SystemExit", "linearize", ~pcall.tmpdir)
    /\ UNCHANGED <<mvars, fvars, rvars, cvars, xvars, srcFiles, pcall, pageSt, collected, dest, pobs,
                   pcalls>>

\* the process is killed while a call runs: nothing is cleaned up
PdfInterrupt ==
    /\ ppc # "idle"
    /\ ppc' = "idle"
    /\ pres' = [kind |-> "killed", error |-> "none", at |-> ppc]
    /\ UNCHANGED <<mvars, fvars, rvars, cvars, xvars, srcFiles, pcall, pageSt, collected, scratch, dest,
                   cmds, pobs, pcalls>>

\* generate_pdfs lines 593-604, the caller goes on to its next call: what
\* is remembered of the call that ended is dropped, the file at output_file
\* stays
CallerGoesOn ==
    /\ ppc = "idle"
    /\ pres.kind # "none"
    /\ pcall' = NoPdfCall
    /\ pageSt' = <<>>
    /\ collected' = <<>>
    /\ scratch' = NoScratch
    /\ cmds' = <<>>
    /\ pres' = NoPdfResult
    /\ pobs' = NoPdfObs
    /\ srcFiles' = {}
    /\ UNCHANGED <<mvars, fvars, rvars, cvars, xvars, ppc, dest, pcalls>>

NextPdf ==
    \/ GeneratePdfStart
    \/ GeneratePdfParallelStart
    \/ MergePdfsStart
    \/ PageStart
    \/ PageResample
    \/ PageDone
    \/ PageFail
    \/ Collect
    \/ PoolShutdown
    \/ GeneratePdfJoin
    \/ ParallelJoin
    \/ Overlay
    \/ StripMetadata
    \/ Linearize
    \/ Concat
    \/ MergeStrip
    \/ MergeLinearize
    \/ MoveRename
    \/ MoveCopyBegin
    \/ MoveCopyEnd
    \/ UnlinkSource
    \/ PdfFinish
    \/ PdfInterrupt
    \/ CallerGoesOn

SpecPdf == InitPdf /\ [][NextPdf]_vars

----------------------------------------------------------------------------
(* File count validation: validate_file_counts                             *)

HtmlSuffix == <<".", "h", "t", "m", "l">>

TxtSuffix == <<".", "t", "x", "t">>

\* the names a book directory may hold: a.html, b.html, a.txt and a.htm
BookFileNames ==
    { <<"a", ".", "h", "t", "m", "l">>,
      <<"b", ".", "h", "t", "m", "l">>,
      <<"a", ".", "t", "x", "t">>,
      <<"a", ".", "h", "t", "m">> }

\* an entry of the processing directory: a book directory with the names it
\* holds, or a regular file
CountEntries ==
    {[isdir |-> TRUE, names |-> S] : S \in SUBSET BookFileNames}
        \cup {[isdir |-> FALSE, names |-> {}]}

\* the processing directories: entry i is the i-th path of
\* sorted(processing.iterdir())
ProcessingDirs == UNION {[1..n -> CountEntries] : n \in 0..MaxDirs}

\* len(list(d.glob("*" + suffix)))
GlobCount(d, suffix) == Cardinality({n \in d.names : EndsWith(n, suffix)})

\* the message of lines 513-516: the directory and both counts
CountMessage(i, d) ==
    [dir |-> i, html |-> GlobCount(d, HtmlSuffix), txt |-> GlobCount(d, TxtSuffix)]

InitCounts ==
    /\ procDir \in ProcessingDirs
    /\ cpc = "idle"
    /\ cnext = 0
    /\ mismatches = <<>>
    /\ cres = NoCountsResult
    /\ ManifestAtRest
    /\ FetchAtRest
    /\ RenameAtRest
    /\ PdfAtRest
    /\ RaceAtRest

\* lines 506-508: mismatches = [] and the sorted listing
ValidateStart ==
    /\ cpc = "idle"
    /\ cres.kind = "none"
    /\ cpc' = "loop"
    /\ cnext' = 1
    /\ mismatches' = <<>>
    /\ UNCHANGED <<mvars, fvars, rvars, pvars, xvars, procDir, cres>>

\* lines 508-518 raising at the first directory whose counts differ
ValidateStepFailFast ==
    /\ cpc = "loop"
    /\ cnext <= Len(procDir)
    /\ LET d == procDir[cnext]
       IN  IF d.isdir /\ GlobCount(d, HtmlSuffix) # GlobCount(d, TxtSuffix)
           THEN /\ mismatches' = Append(mismatches, CountMessage(cnext, d))
                /\ cres' = [kind |-> "ValidationError",
                            listed |-> Append(mismatches, CountMessage(cnext, d)),
                            inspected |-> cnext]
                /\ cpc' = "idle"
                /\ cnext' = cnext
           ELSE /\ cnext' = cnext + 1
                /\ UNCHANGED <<mismatches, cres, cpc>>
    /\ UNCHANGED <<mvars, fvars, rvars, pvars, xvars, procDir>>

\* lines 508-520, one turn of the loop: an entry that is a directory has its
\* .html and .txt names counted, and differing counts add a message
ValidateStep ==
    /\ cpc = "loop"
    /\ cnext <= Len(procDir)
    /\ LET d == procDir[cnext]
       IN  mismatches' =
              IF d.isdir /\ GlobCount(d, HtmlSuffix) # GlobCount(d, TxtSuffix)
              THEN Append(mismatches, CountMessage(cnext, d))
              ELSE mismatches
    /\ cnext' = cnext + 1
    /\ UNCHANGED <<mvars, fvars, rvars, pvars, xvars, procDir, cpc, cres>>

\* lines 522-527: after the loop, ValidationError with every message or the
\* return
ValidateEnd ==
    /\ cpc = "loop"
    /\ cnext > Len(procDir)
    /\ cres' = [kind |-> IF mismatches # <<>> THEN "ValidationError" ELSE "returned",
                listed |-> mismatches,
                inspected |-> cnext - 1]
    /\ cpc' = "idle"
    /\ UNCHANGED <<mvars, fvars, rvars, pvars, xvars, procDir, cnext, mismatches>>

NextCounts == ValidateStart \/ ValidateStep \/ ValidateEnd

SpecCounts == InitCounts /\ [][NextCounts]_vars

----------------------------------------------------------------------------
(* Claims about the file count validation *)

\* the book directories whose counts differ
BadDirs ==
    {i \in DOMAIN procDir :
        procDir[i].isdir
          /\ GlobCount(procDir[i], HtmlSuffix) # GlobCount(procDir[i], TxtSuffix)}

\* C25: validate_file_counts has inspected every entry of the processing
\* directory when it ends; it raises ValidationError exactly when some book
\* directory has differing numbers of .html and .txt files, and the error
\* lists each such directory once, with both of its counts
C25_AllCountMismatchesListed ==
    (cpc = "idle" /\ cres.kind # "none") =>
        /\ cres.inspected = Len(procDir)
        /\ cres.kind = IF BadDirs # {} THEN "ValidationError" ELSE "returned"
        /\ {cres.listed[k].dir : k \in 1..Len(cres.listed)} = BadDirs
        /\ Len(cres.listed) = Cardinality(BadDirs)
        /\ \A k \in 1..Len(cres.listed) :
              cres.listed[k] = CountMessage(cres.listed[k].dir,
                                            procDir[cres.listed[k].dir])

\* the error lists two directories, the first with two .html names and one
\* .txt name
C25_Witness ==
    /\ cpc = "idle"
    /\ cres.kind = "ValidationError"
    /\ Len(cres.listed) = 2
    /\ cres.listed[1].html = 2
    /\ cres.listed[1].txt = 1

----------------------------------------------------------------------------
(* Two invocations of fetch_batch_files for one batch, run by two processes *)
(* with nothing to keep them apart: they share cache_dir and tmp_dir, each  *)
(* has its own outbox, and their steps interleave in any order              *)

\* the remote batches of the race specification: those whose names hold no
\* "_lo"
RaceBatches ==
    {b \in RemoteBatches : \A n \in DOMAIN b : RemoveAll(n, LoPattern) = n}

\* remove_pattern(tmp_dir, "_lo") on the files of tmp_dir, the names taken
\* in sorted order
RECURSIVE NormalizeFiles(_, _)
NormalizeFiles(files, names) ==
    IF names = <<>> THEN files
    ELSE LET n == Head(names)
             rest == NormalizeFiles(files, Tail(names))
         IN  IF RemoveAll(n, LoPattern) # n /\ n \in DOMAIN rest
             THEN RenameIn(rest, n, RemoveAll(n, LoPattern))
             ELSE rest

\* the invocations that have made tmp_dir and not yet renamed it
Building == {q \in Procs : xpc[q] \in {"sync", "normalize", "rename"}}

\* invocation p ends
RaceFinish(p, kind, at) ==
    /\ xpc' = [xpc EXCEPT ![p] = "idle"]
    /\ xpending' = [xpending EXCEPT ![p] = {}]
    /\ xout' = [xout EXCEPT ![p] = Ended(kind, at)]

\* invocation p goes on to step pc with the names in names to visit
RaceGoto(p, step, names) ==
    /\ xpc' = [xpc EXCEPT ![p] = step]
    /\ xpending' = [xpending EXCEPT ![p] = names]
    /\ xout' = xout

InitRace ==
    /\ xremote \in RaceBatches
    /\ xcache = NoDir
    /\ xtmp = NoDir
    /\ xoutbox = [p \in Procs |-> MkDir(EmptyFiles, NoFile, NoFile)]
    /\ xpc = [p \in Procs |-> "idle"]
    /\ xpending = [p \in Procs |-> {}]
    /\ xout = [p \in Procs |-> Ended("none", "none")]
    /\ xobs = NoRaceObs
    /\ ManifestAtRest
    /\ FetchAtRest
    /\ RenameAtRest
    /\ PdfAtRest
    /\ CountsAtRest

\* lines 344-349: invocation p starts
RaceStart(p) ==
    /\ xpc[p] = "idle"
    /\ xout[p].kind = "none"
    /\ RaceGoto(p, "rmtmp", {})
    /\ UNCHANGED <<mvars, fvars, rvars, pvars, cvars, xremote, xcache, xtmp,
                   xoutbox, xobs>>

\* lines 351-353: tmp_dir is removed if it exists, whoever made it
RaceRemoveTmp(p) ==
    /\ xpc[p] = "rmtmp"
    /\ xtmp' = NoDir
    /\ xobs' = [xobs EXCEPT !.removedBuilding =
                    @ \/ (xtmp.exists /\ Building \ {p} # {})]
    /\ RaceGoto(p, "glob", {})
    /\ UNCHANGED <<mvars, fvars, rvars, pvars, cvars, xremote, xcache, xoutbox>>

\* lines 355-358, 362: cache_ready and the branch taken
RaceGlob(p) ==
    /\ xpc[p] = "glob"
    /\ RaceGoto(p, IF Cardinality(ZipFiles(xcache)) > 0 THEN "verify_cache"
                   ELSE "mkdir_tmp", {})
    /\ UNCHANGED <<mvars, fvars, rvars, pvars, cvars, xremote, xcache, xtmp,
                   xoutbox, xobs>>

\* lines 359-360: verify_directory_checksum(cache_dir); line 382: the listing
\* the copy loop walks
RaceVerifyCache(p) ==
    /\ xpc[p] = "verify_cache"
    /\ IF VerifyDirectoryChecksum(xcache.dir).raised
       THEN RaceFinish(p, "ValidationError", "verify_cache")
       ELSE RaceGoto(p, "copy", Listing(xcache.dir))
    /\ UNCHANGED <<mvars, fvars, rvars, pvars, cvars, xremote, xcache, xtmp,
                   xoutbox, xobs>>

\* line 363: tmp_dir.mkdir(parents=True, exist_ok=True); the sync lists the
\* remote files
RaceMkTmp(p) ==
    /\ xpc[p] = "mkdir_tmp"
    /\ xtmp' = IF xtmp.exists THEN xtmp ELSE EmptyDir
    /\ RaceGoto(p, "sync", DOMAIN xremote)
    /\ UNCHANGED <<mvars, fvars, rvars, pvars, cvars, xremote, xcache, xoutbox,
                   xobs>>

\* lines 365-373: aws s3 sync downloads one file into tmp_dir; where tmp_dir
\* is gone it makes the directory again or exits non-zero, and run() ends
\* the process
RaceSyncFile(p) ==
    /\ xpc[p] = "sync"
    /\ \E n \in xpending[p] :
          \/ /\ xtmp' = [exists |-> TRUE,
                         dir |-> [xtmp.dir EXCEPT !.files = With(@, n, xremote[n])]]
             /\ RaceGoto(p, "sync", xpending[p] \ {n})
          \/ /\ ~xtmp.exists
             /\ xtmp' = xtmp
             /\ RaceFinish(p, "SystemExit", "sync")
    /\ UNCHANGED <<mvars, fvars, rvars, pvars, cvars, xremote, xcache, xoutbox,
                   xobs>>

\* lines 365-373: aws s3 sync exits zero
RaceSyncDone(p) ==
    /\ xpc[p] = "sync"
    /\ xpending[p] = {}
    /\ RaceGoto(p, "normalize", {})
    /\ UNCHANGED <<mvars, fvars, rvars, pvars, cvars, xremote, xcache, xtmp,
                   xoutbox, xobs>>

\* line 375: remove_pattern(tmp_dir, "_lo"), ValueError where tmp_dir is not
\* a directory
RaceNormalize(p) ==
    /\ xpc[p] = "normalize"
    /\ IF xtmp.exists
       THEN /\ xtmp' = [xtmp EXCEPT !.dir.files =
                           NormalizeFiles(@, Sorted(DOMAIN xtmp.dir.files))]
            /\ RaceGoto(p, "rename", {})
       ELSE /\ xtmp' = xtmp
            /\ RaceFinish(p, "ValueError", "normalize")
    /\ UNCHANGED <<mvars, fvars, rvars, pvars, cvars, xremote, xcache, xoutbox,
                   xobs>>

\* line 377: tmp_dir.rename(cache_dir); FileNotFoundError where tmp_dir is
\* gone, OSError where cache_dir is there and not empty
RaceRename(p) ==
    /\ xpc[p] = "rename"
    /\ IF ~xtmp.exists
       THEN /\ RaceFinish(p, "FileNotFoundError", "rename")
            /\ UNCHANGED <<xcache, xtmp, xobs>>
       ELSE IF xcache.exists /\ Listing(xcache.dir) # {}
       THEN /\ RaceFinish(p, "OSError", "rename")
            /\ UNCHANGED <<xcache, xtmp, xobs>>
       ELSE /\ xcache' = xtmp
            /\ xtmp' = NoDir
            /\ xobs' = [xobs EXCEPT !.renamedBuilding = @ \/ Building \ {p} # {}]
            /\ RaceGoto(p, "manifest_open", {})
    /\ UNCHANGED <<mvars, fvars, rvars, pvars, cvars, xremote, xoutbox>>

\* lines 238-240: both manifest files are opened for writing (made empty),
\* then the directory is listed
RaceManifestOpen(p) ==
    /\ xpc[p] = "manifest_open"
    /\ xcache' = [xcache EXCEPT !.dir.cksum = TextFile(<<>>),
                                !.dir.info = TextFile(<<>>)]
    /\ RaceGoto(p, "manifest_write", DOMAIN xcache.dir.files)
    /\ UNCHANGED <<mvars, fvars, rvars, pvars, cvars, xremote, xtmp, xoutbox,
                   xobs>>

\* lines 240-257: the next file in sorted order is hashed and gets its line
\* in both manifest files
RaceManifestWrite(p) ==
    /\ xpc[p] = "manifest_write"
    /\ xpending[p] # {}
    /\ LET n == Head(Sorted(xpending[p]))
       IN  /\ xcache' = [xcache EXCEPT
                 !.dir.cksum.lines = Append(@, ChecksumLine(n, xcache.dir.files[n])),
                 !.dir.info.lines = Append(@, InfoLine(n, xcache.dir.files[n]))]
           /\ RaceGoto(p, "manifest_write", xpending[p] \ {n})
    /\ UNCHANGED <<mvars, fvars, rvars, pvars, cvars, xremote, xtmp, xoutbox,
                   xobs>>

\* lines 259-260, 382: the manifest is closed; the copy loop lists cache_dir
RaceManifestDone(p) ==
    /\ xpc[p] = "manifest_write"
    /\ xpending[p] = {}
    /\ RaceGoto(p, "copy", Listing(xcache.dir))
    /\ UNCHANGED <<mvars, fvars, rvars, pvars, cvars, xremote, xcache, xtmp,
                   xoutbox, xobs>>

\* line 383: shutil.copy2 of one listed file, as it is now, into the outbox
\* of invocation p
RaceCopyFile(p) ==
    /\ xpc[p] = "copy"
    /\ \E n \in xpending[p] :
          /\ xoutbox' = [xoutbox EXCEPT ![p] =
                IF n = CksumName THEN [@ EXCEPT !.cksum = xcache.dir.cksum]
                ELSE IF n = InfoName THEN [@ EXCEPT !.info = xcache.dir.info]
                ELSE [@ EXCEPT !.files = With(@, n, xcache.dir.files[n])]]
          /\ RaceGoto(p, "copy", xpending[p] \ {n})
    /\ UNCHANGED <<mvars, fvars, rvars, pvars, cvars, xremote, xcache, xtmp,
                   xobs>>

\* lines 385-388: verify_directory_checksum(outbox), then the return
RaceVerifyOutbox(p) ==
    /\ xpc[p] = "copy"
    /\ xpending[p] = {}
    /\ IF VerifyDirectoryChecksum(xoutbox[p]).raised
       THEN RaceFinish(p, "ValidationError", "verify_outbox")
       ELSE RaceFinish(p, "returned", "none")
    /\ UNCHANGED <<mvars, fvars, rvars, pvars, cvars, xremote, xcache, xtmp,
                   xoutbox, xobs>>

NextRace ==
    \E p \in Procs :
        \/ RaceStart(p)
        \/ RaceRemoveTmp(p)
        \/ RaceGlob(p)
        \/ RaceVerifyCache(p)
        \/ RaceMkTmp(p)
        \/ RaceSyncFile(p)
        \/ RaceSyncDone(p)
        \/ RaceNormalize(p)
        \/ RaceRename(p)
        \/ RaceManifestOpen(p)
        \/ RaceManifestWrite(p)
        \/ RaceManifestDone(p)
        \/ RaceCopyFile(p)
        \/ RaceVerifyOutbox(p)

SpecRace == InitRace /\ [][NextRace]_vars

----------------------------------------------------------------------------
(* Claims about two invocations at once *)

\* the names of the batch's files as the cache is to hold them
BatchNames == {RemoveAll(n, LoPattern) : n \in DOMAIN xremote}

\* C28: with two invocations interleaved, an invocation that has returned
\* normally has every file of the batch in its outbox, next to a manifest
\* that lists every file of the batch; and no invocation has removed or
\* renamed a tmp_dir that the other was building
C28_RaceSafe ==
    /\ \A p \in Procs :
          (xpc[p] = "idle" /\ xout[p].kind = "returned") =>
              /\ BatchNames \subseteq DOMAIN xoutbox[p].files
              /\ BatchNames \subseteq ListedNames(xoutbox[p])
    /\ ~xobs.removedBuilding
    /\ ~xobs.renamedBuilding

----------------------------------------------------------------------------
(* Claims about the PDF assembly *)

\* a call of fn has ended by returning or raising
CallEnded(fn) == ppc = "idle" /\ pcall.fn = fn /\ pres.kind \in {"returned", "raised"}

C13_HandedInPageOrder ==
    (pcall.fn \in {"generate_pdf", "generate_pdf_parallel"} /\ pobs.handedOver) =>
        pobs.handed = [i \in 1..pcall.nimg |-> i]

\* C14: once a page of generate_pdf has failed no queued page is started,
\* the running pages come to their end, and the overlay is never run
C14_NoStartAfterFailure ==
    [][(pcall.fn = "generate_pdf" /\ \E i \in DOMAIN pageSt : pageSt[i] = "failed") =>
          /\ \A i \in DOMAIN pageSt \cap DOMAIN pageSt' :
                /\ ~(pageSt[i] = "queued" /\ pageSt'[i] = "running")
                /\ pageSt[i] = "running" => pageSt'[i] \in {"running", "done", "failed"}
          /\ \A k \in 1..Len(cmds') : cmds'[k].stage # "overlay"]_vars

\* C15: a generate_pdf call that made a temporary directory and has returned
\* or raised (a page worker, the overlay, the metadata strip or the
\* linearizer failed) has removed the directory
C15_ScratchRemoved ==
    (CallEnded("generate_pdf") /\ pobs.made) => scratch = NoScratch

\* a generate_pdf call ended by a failed page after another page had left
\* its files in the temporary directory
C15_Witness ==
    /\ CallEnded("generate_pdf")
    /\ pobs.made
    /\ pres.at = "resample"
    /\ \E k \in 1..Len(cmds) : cmds[k].stage = "resample" /\ cmds[k].ok
    /\ ~scratch.exists

\* the merge tools in the order of preference
Priority == <<"qpdf", "pdftk", "pdfbox">>

\* the tool is installed on the machine of call c
Available(c, t) ==
    \/ t = "qpdf" /\ c.qpdf
    \/ t = "pdftk" /\ c.pdftk
    \/ t = "pdfbox" /\ c.java /\ JarNames \subseteq c.jars

\* C16: _do_merge concatenates with the first available of qpdf, pdftk and
\* PDFBox (java and the three jars); where none is available it raises
\* RuntimeError and runs no command
C16_ToolPriority ==
    (pcall.fn \in {"merge_pdfs", "generate_pdf_parallel"} /\ pobs.handedOver) =>
        IF \E k \in 1..3 : Available(pcall, Priority[k])
        THEN \E k \in 1..3 :
                /\ Available(pcall, Priority[k])
                /\ \A j \in 1..(k - 1) : ~Available(pcall, Priority[j])
                /\ pobs.tool = Priority[k]
                /\ \A m \in 1..Len(cmds) :
                      cmds[m].stage = "concat" => cmds[m].tool = Priority[k]
        ELSE /\ ppc = "idle"
             /\ pres.kind = "raised"
             /\ pres.error = "RuntimeError"
             /\ \A m \in 1..Len(cmds) : cmds[m].stage = "resample"

\* a merge that ran PDFBox on a machine without qpdf and pdftk
C16_Witness ==
    /\ pcall.fn = "merge_pdfs"
    /\ ~pcall.qpdf
    /\ ~pcall.pdftk
    /\ \E m \in 1..Len(cmds) :
          cmds[m].stage = "concat" /\ cmds[m].tool = "pdfbox" /\ cmds[m].ok

\* the position of the first command of a stage among the commands run
FirstCmd(stage) ==
    CHOOSE k \in 1..Len(cmds) :
        cmds[k].stage = stage /\ \A j \in 1..(k - 1) : cmds[j].stage # stage

\* C17: a run of generate_pdf or _do_merge that delivered its file has run
\* the metadata strip to its end before the linearizer, the linearizer read
\* the stripped document, and the file at the destination is what the
\* linearizer wrote
C17_StripThenLinearize ==
    (pcall.fn \in {"generate_pdf", "merge_pdfs"} /\ pres.kind = "returned"
        /\ pres.at = "end") =>
        /\ \E k \in 1..Len(cmds) : cmds[k].stage = "strip" /\ cmds[k].ok
        /\ \E k \in 1..Len(cmds) : cmds[k].stage = "linearize" /\ cmds[k].ok
        /\ FirstCmd("strip") < FirstCmd("linearize")
        /\ Len(dest.ops) = 3
        /\ dest.ops[1] \in {"overlay", "concat"}
        /\ dest.ops[2] = "strip"
        /\ dest.ops[3] = "linearize"
        /\ dest.pages = pobs.handed
        /\ dest.whole

\* generate_pdf delivered a document of two pages over a file that was at
\* the destination
C17_Witness ==
    /\ CallEnded("generate_pdf")
    /\ pres.at = "end"
    /\ pcall.nimg = 2
    /\ pobs.destAtStart.exists
    /\ dest.pages = <<1, 2>>

\* C18: the destination never holds a partly written file: it is absent,
\* holds what it held, or holds the whole linearized document
C18_DestNeverPartial == dest.whole

\* C19: a call that found the destination file in place and was not asked to
\* overwrite runs no external tool, leaves the file as it is and returns
C19_NoClobber ==
    (pcall.fn # "none" /\ pobs.destAtStart.exists /\ ~pcall.overwrite) =>
        /\ cmds = <<>>
        /\ dest = pobs.destAtStart
        /\ ppc = "idle"
        /\ pres.kind = "returned"

\* the place of a stage in the pipeline
StageRank(stage) ==
    IF stage = "resample" THEN 1
    ELSE IF stage \in {"overlay", "concat"} THEN 2
    ELSE IF stage = "strip" THEN 3
    ELSE 4

\* C20: once an external tool has exited non-zero no command of a later
\* stage is run, the failed command is not run again, the destination is as
\* it was before the call, and the call does not return normally
C20_ToolFailureAborts ==
    \A k \in 1..Len(cmds) :
        ~cmds[k].ok =>
            /\ \A j \in (k + 1)..Len(cmds) :
                  /\ StageRank(cmds[j].stage) <= StageRank(cmds[k].stage)
                  /\ ~(cmds[j].stage = cmds[k].stage /\ cmds[j].page = cmds[k].page)
            /\ dest = pobs.destAtStart
            /\ pres.kind # "returned"
            /\ ppc \in {"idle", "pool", "shutdown"}
            /\ (ppc = "idle" /\ pres.kind # "killed") =>
                  (pres.kind = "raised" /\ pres.error = "SystemExit")

\* a generate_pdf call asked to overwrite an existing file ended by a
\* failed metadata strip
C20_Witness ==
    /\ ppc = "idle"
    /\ pcall.fn = "generate_pdf"
    /\ pcall.overwrite
    /\ pres.kind = "raised"
    /\ pres.at = "strip"
    /\ pobs.destAtStart.exists
    /\ \E k \in 1..Len(cmds) : cmds[k].stage = "strip" /\ ~cmds[k].ok


\* C21: a merge_pdfs call that found a merge tool and whose every external
\* command exited with status zero has put the merged, stripped and
\* linearized file at output_file when it ends
C21_FallbackCompletes ==
    (CallEnded("merge_pdfs") /\ pobs.tool # "none"
        /\ \A k \in 1..Len(cmds) : cmds[k].ok) =>
        dest = Doc(pobs.handed, <<"concat", "strip", "linearize">>)


\* the input files of the merge_pdfs call that are no longer on disk
Deleted == {pcall.inputs[k] : k \in 1..Len(pcall.inputs)} \ srcFiles

\* C22: merge_pdfs deletes an input file only when keep_sources is False
\* and only after the merged document is at the destination; once the
\* concatenation, the metadata strip or the linearizer has failed no input
\* is deleted; a failed deletion ends the call with RuntimeError; and a call
\* that returned with keep_sources False has deleted every input
C22_SourcesDeletedAfterMove ==
    pcall.fn = "merge_pdfs" =>
        /\ Deleted # {} =>
              /\ ~pcall.keep_sources
              /\ dest = Doc(pobs.handed, <<"concat", "strip", "linearize">>)
        /\ (\/ \E k \in 1..Len(cmds) : ~cmds[k].ok
            \/ pres.at \in {"select", "concat", "strip", "linearize"}) =>
              Deleted = {}
        /\ pobs.unlinkFailed =>
              /\ ppc = "idle"
              /\ pres.kind = "raised"
              /\ pres.error = "RuntimeError"
        /\ (pres.kind = "returned" /\ ~pcall.keep_sources) => srcFiles = {}

\* a merge of two files with keep_sources False deleted the first and
\* failed to delete the second, the merged document being at the destination
C22_Witness ==
    /\ CallEnded("merge_pdfs")
    /\ ~pcall.keep_sources
    /\ pcall.inputs = <<1, 2>>
    /\ srcFiles = {2}
    /\ pobs.unlinkFailed
    /\ dest.pages = <<1, 2>>


\* C27: the paths the page workers of generate_pdf create are disjoint from
\* page to page: every file of the temporary directory written by a worker
\* is one of the two paths of the page that wrote it, no two pages have a
\* path in common, and no write has hit a path that was there already
C27_PagePathsDisjoint ==
    pcall.fn = "generate_pdf" =>
        /\ \A i \in DOMAIN pageSt : \A j \in DOMAIN pageSt :
              i # j => PagePaths(i) \cap PagePaths(j) = {}
        /\ \A path \in DOMAIN scratch.files :
              path \in PagePaths(scratch.files[path])
        /\ ~pobs.clobbered

\* two pages of generate_pdf run at the same time and each has written its
\* resampled image
C27_Witness ==
    /\ pcall.fn = "generate_pdf"
    /\ ppc = "pool"
    /\ ResampledPages = {1, 2}

====
